---- MODULE Spec2Model ----
(***************************************************************************)
(* Model of the observing-environment manager (ObservingEnvironment in     *)
(* src/src/observing_environment.rs): version-to-tag expansion, the         *)
(* tag-then-branch checkout of one repository, and the baseline reset of   *)
(* the fleet.                                                               *)
(*                                                                          *)
(* Strings are sequences of one-character strings, so that the string      *)
(* transformations of the code are computed and not assumed.                *)
(***************************************************************************)
EXTENDS Integers, Sequences, FiniteSets, TLC

VARIABLES
    remote,     \* per repository: the refs published at its origin
    disk,       \* per directory name under the destination: NotCloned or a working copy
    cycleRemote,\* the published definitions file (ts_cycle_build, cycle/cycle.env)
    cycleDisk,  \* the local copy of the definitions repository
    host,       \* the destination directory and the setup file in it
    sidecar,    \* the sidecar process: where it is, the messages of its topic
    last        \* what the last operation was, the backend calls it made, its result

vars == <<remote, disk, cycleRemote, cycleDisk, host, sidecar, last>>

-----------------------------------------------------------------------------
(* Strings *)

Digits == {"0","1","2","3","4","5","6","7","8","9"}
Lower == {"a","b","c","d","e","f","g","h","i","j","k","l","m",
          "n","o","p","q","r","s","t","u","v","w","x","y","z"}
Upper == {"A","B","C","D","E","F","G","H","I","J","K","L","M",
          "N","O","P","Q","R","S","T","U","V","W","X","Y","Z"}

EmptyStr == <<>>
S_main == <<"m","a","i","n">>
S_temp == <<"t","e","m","p">>
S_100a1 == <<"1",".","0",".","0","a","1">>
S_cwfs == <<"c","w","f","s">>
S_ts_wep == <<"t","s","_","w","e","p">>
S_atmospec == <<"a","t","m","o","s","p","e","c">>

\* The decimal spelling of a number.
DigitOf(d) == <<"0","1","2","3","4","5","6","7","8","9">>[d + 1]
RECURSIVE Decimal(_)
Decimal(n) == IF n < 10 THEN <<DigitOf(n)>> ELSE Decimal(n \div 10) \o <<DigitOf(n % 10)>>

\* str::starts_with
StartsWith(s, p) == Len(p) <= Len(s) /\ SubSeq(s, 1, Len(p)) = p

\* First index >= i of s that does not hold a character of set cs (Len(s)+1 if none).
RECURSIVE SkipChars(_, _, _)
SkipChars(s, i, cs) ==
    IF i <= Len(s) /\ s[i] \in cs THEN SkipChars(s, i + 1, cs) ELSE i

\* Regex::is_match for VALID_VERSION = ^[0-9]*\.[0-9]*\.[0-9]*
IsValidVersion(s) ==
    LET i1 == SkipChars(s, 1, Digits) IN
    /\ i1 <= Len(s) /\ s[i1] = "."
    /\ LET i2 == SkipChars(s, i1 + 1, Digits) IN
       i2 <= Len(s) /\ s[i2] = "."

\* str::replace(char, &str)
RECURSIVE ReplaceChar(_, _, _)
ReplaceChar(s, c, r) ==
    IF s = <<>> THEN <<>>
    ELSE (IF Head(s) = c THEN r ELSE <<Head(s)>>) \o ReplaceChar(Tail(s), c, r)

\* str::replace(&str, &str) for a pattern of two characters: leftmost,
\* non-overlapping occurrences.
RECURSIVE ReplaceTwo(_, _, _)
ReplaceTwo(s, p, r) ==
    IF Len(s) < 2 THEN s
    ELSE IF SubSeq(s, 1, 2) = p THEN r \o ReplaceTwo(SubSeq(s, 3, Len(s)), p, r)
    ELSE <<Head(s)>> \o ReplaceTwo(Tail(s), p, r)

S_alpha == <<".","a","l","p","h","a",".">>
\* The word of 'b' spelled as that of 'a'.
S_beta_as_alpha == <<".","a","l","p","h","a",".">>
S_beta == <<".","b","e","t","a",".">>
S_rc == <<".","r","c",".">>

\* The replacements in another order: 'b' before 'a'.
expand_version_to_tag_beta_first(version) ==
    IF IsValidVersion(version)
    THEN ReplaceTwo(
             ReplaceChar(ReplaceChar(<<"v">> \o version, "b", S_beta), "a", S_alpha),
             <<"r","c">>, S_rc)
    ELSE version

\* The tag without the leading "v".
expand_version_to_tag_unprefixed(version) ==
    IF IsValidVersion(version)
    THEN ReplaceTwo(ReplaceChar(ReplaceChar(version, "a", S_alpha), "b", S_beta),
                    <<"r","c">>, S_rc)
    ELSE version

\* ObservingEnvironment::expand_version_to_tag
expand_version_to_tag(version) ==
    IF IsValidVersion(version)
    THEN ReplaceTwo(
             ReplaceChar(ReplaceChar(<<"v">> \o version, "a", S_alpha), "b", S_beta),
             <<"r","c">>, S_rc)
    ELSE version

-----------------------------------------------------------------------------
(* Partial functions: a ref namespace maps the names present to commits. *)

NoRefs == [x \in {} |-> 0]
Put(f, k, v) == [x \in (DOMAIN f) \cup {k} |-> IF x = k THEN v ELSE f[x]]
\* b overrides a
Merge(a, b) == [x \in (DOMAIN a) \cup (DOMAIN b) |-> IF x \in DOMAIN b THEN b[x] ELSE a[x]]


-----------------------------------------------------------------------------
(* The version-control backend (git2): a working copy and the calls the     *)
(* code makes on it. A commit is a number; 0 is never a commit.             *)

MaxCommit == 2
Commits == 1..MaxCommit

OnBranch(b) == [kind |-> "branch", name |-> b, commit |-> 0]
Detached(c) == [kind |-> "detached", name |-> EmptyStr, commit |-> c]

\* A directory that is no working copy (Repository::open fails on it).
NotCloned ==
    [present |-> FALSE, tags |-> NoRefs, rtrack |-> NoRefs, heads |-> NoRefs,
     head |-> Detached(0), wt |-> 0, dirty |-> FALSE]

\* The commit HEAD resolves to.
HeadCommit(w) ==
    IF w.head.kind = "branch"
    THEN (IF w.head.name \in DOMAIN w.heads THEN w.heads[w.head.name] ELSE 0)
    ELSE w.head.commit

\* A call in progress: the working copy so far, the backend calls made, whether
\* a `?` has already returned an error (with its message), the object the last
\* lookup resolved to, and the number of fetches the network still lets through.
Begin(w, net) ==
    [ok |-> TRUE, w |-> w, trace |-> <<>>, cause |-> "none", net |-> net,
     found |-> FALSE, commit |-> 0]
Call(name, arg) == [call |-> name, arg |-> arg]
Fail(ctx, call, cause) ==
    [ctx EXCEPT !.ok = FALSE, !.trace = Append(@, call), !.cause = cause]
Done(ctx, call, w) == [ctx EXCEPT !.w = w, !.trace = Append(@, call)]

\* Remote::fetch(&[branch_name], None, None): the named branch of the origin is
\* downloaded and its remote-tracking ref refs/remotes/origin/<name> updated; a
\* name the origin does not have updates nothing.
FetchBranch(ctx, rem, name) ==
    IF ~ctx.ok THEN ctx
    ELSE IF ctx.net = 0 THEN Fail(ctx, Call("fetch", name), "network")
    ELSE Done([ctx EXCEPT !.net = @ - 1], Call("fetch", name),
              IF name \in DOMAIN rem.branches
              THEN [ctx.w EXCEPT !.rtrack = Put(@, name, rem.branches[name])]
              ELSE ctx.w)

\* Remote::fetch(&[""], download_tags(All)): the origin's HEAD and every tag.
FetchAllTags(ctx, rem) ==
    IF ~ctx.ok THEN ctx
    ELSE IF ctx.net = 0 THEN Fail(ctx, Call("fetch_tags", EmptyStr), "network")
    ELSE Done([ctx EXCEPT !.net = @ - 1], Call("fetch_tags", EmptyStr),
              [ctx.w EXCEPT !.tags = Merge(@, rem.tags)])

\* Repository::revparse_single("refs/tags/<tag>"): whether the tag resolves
\* decides the match in checkout_tag_or_branch, so a miss is no error here.
RevparseTag(ctx, tag) ==
    IF ~ctx.ok THEN ctx
    ELSE [ctx EXCEPT !.trace = Append(@, Call("revparse_tag", tag)),
                     !.found = tag \in DOMAIN ctx.w.tags,
                     !.commit = IF tag \in DOMAIN ctx.w.tags THEN ctx.w.tags[tag] ELSE 0]

\* Repository::find_branch("origin/<name>", BranchType::Remote) and
\* peel_to_commit
FindRemoteBranch(ctx, name) ==
    IF ~ctx.ok THEN ctx
    ELSE IF name \notin DOMAIN ctx.w.rtrack
    THEN Fail(ctx, Call("find_branch", name), "reference not found")
    ELSE [ctx EXCEPT !.trace = Append(@, Call("find_branch", name)),
                     !.found = TRUE,
                     !.commit = ctx.w.rtrack[name]]

\* Repository::branch(name, commit, force = true): creates or moves the local
\* branch; the backend refuses to move the branch HEAD currently points at.
BranchForce(ctx, name) ==
    IF ~ctx.ok THEN ctx
    ELSE IF ctx.w.head.kind = "branch" /\ ctx.w.head.name = name
            /\ name \in DOMAIN ctx.w.heads
    THEN Fail(ctx, Call("branch", name), "cannot force update current HEAD")
    ELSE Done(ctx, Call("branch", name),
              [ctx.w EXCEPT !.heads = Put(@, name, ctx.commit)])

\* Repository::set_head("refs/heads/<name>")
SetHeadBranch(ctx, name) ==
    IF ~ctx.ok THEN ctx
    ELSE IF name \notin DOMAIN ctx.w.heads
    THEN Fail(ctx, Call("set_head", name), "reference not found")
    ELSE Done(ctx, Call("set_head", name), [ctx.w EXCEPT !.head = OnBranch(name)])

\* Repository::set_head("refs/tags/<tag>"): a reference that is no branch
\* detaches HEAD at the commit it points to.
SetHeadTag(ctx, tag) ==
    IF ~ctx.ok THEN ctx
    ELSE IF tag \notin DOMAIN ctx.w.tags
    THEN Fail(ctx, Call("set_head_tag", tag), "reference not found")
    ELSE Done(ctx, Call("set_head_tag", tag),
              [ctx.w EXCEPT !.head = Detached(ctx.w.tags[tag])])

\* Where HEAD is after a reset to the commit: the branch it is on moves, a
\* detached HEAD moves itself.
MovedHeads(w, commit) ==
    IF w.head.kind = "branch" THEN Put(w.heads, w.head.name, commit) ELSE w.heads
MovedHead(w, commit) ==
    IF w.head.kind = "branch" THEN w.head ELSE Detached(commit)

\* Repository::reset(object, ResetType::Hard, force): HEAD moves to the commit,
\* and index and working tree are overwritten with it.
ResetHard(ctx) ==
    IF ~ctx.ok THEN ctx
    ELSE Done(ctx, Call("reset", EmptyStr),
              [ctx.w EXCEPT !.heads = MovedHeads(ctx.w, ctx.commit),
                            !.head = MovedHead(ctx.w, ctx.commit),
                            !.wt = ctx.commit,
                            !.dirty = FALSE])

-----------------------------------------------------------------------------
(* The two checkout procedures *)

\* checkout_branch without its last set_head: HEAD stays on the scratch branch.
checkout_branch_left_on_temp(ctx0, rem, branch_name) ==
    ResetHard(
        BranchForce(
            SetHeadBranch(
                BranchForce(
                    FindRemoteBranch(FetchBranch(ctx0, rem, branch_name), branch_name),
                    S_temp),
                S_temp),
            branch_name))

\* fn checkout_branch(repository, branch_name): fetch, find origin/<name>,
\* put the scratch branch temp at its commit and HEAD on temp, move the local
\* branch, hard-reset, put HEAD on the local branch.
checkout_branch(ctx0, rem, branch_name) ==
    SetHeadBranch(
        ResetHard(
            BranchForce(
                SetHeadBranch(
                    BranchForce(
                        FindRemoteBranch(FetchBranch(ctx0, rem, branch_name),
                                         branch_name),
                        S_temp),
                    S_temp),
                branch_name)),
        branch_name)

\* checkout_tag without the hard reset: the working tree is left as it was.
checkout_tag_without_reset(ctx0, version, tag) ==
    SetHeadTag(BranchForce(ctx0, version), tag)

\* fn checkout_tag(repository, version, object, spec): ctx0.commit is what
\* refs/tags/<tag> resolved to.
checkout_tag(ctx0, version, tag) ==
    ResetHard(SetHeadTag(BranchForce(ctx0, version), tag))

\* An error returned so far is dropped and the call goes on.
Unfail(c) == [c EXCEPT !.ok = TRUE, !.cause = "none"]
OrElseBranch(t, rem, version) ==
    IF t.ok THEN t ELSE checkout_branch(Unfail(t), rem, version)

\* The match with the two results of the tag path merged: the branch is tried
\* whenever the tag path returns an error, not only when the tag is missing.
TagOrBranch_fallback_on_error(c2, rem, tag, version) ==
    IF ~c2.ok THEN c2
    ELSE IF c2.found THEN OrElseBranch(checkout_tag(c2, version, tag), rem, version)
    ELSE checkout_branch(c2, rem, version)

\* The match of checkout_tag_or_branch on the result of the tag lookup.
TagOrBranch(c2, rem, tag, version) ==
    IF ~c2.ok THEN c2
    ELSE IF c2.found THEN checkout_tag(c2, version, tag)
    ELSE checkout_branch(c2, rem, version)

\* checkout_tag_or_branch with the result of the first fetch not checked (no `?`).
checkout_tag_or_branch_fetch_unchecked(ctx0, rem, tag, version) ==
    TagOrBranch(RevparseTag(Unfail(FetchAllTags(ctx0, rem)), tag), rem, tag, version)

\* checkout_tag_or_branch run a second time when it returned an error.
Retried(c, rem, tag, version) ==
    IF c.ok THEN c
    ELSE TagOrBranch(RevparseTag(FetchAllTags(Unfail(c), rem), tag), rem, tag, version)
checkout_tag_or_branch_retry(ctx0, rem, tag, version) ==
    Retried(TagOrBranch(RevparseTag(FetchAllTags(ctx0, rem), tag), rem, tag, version),
            rem, tag, version)

\* ObservingEnvironment::checkout_tag_or_branch(repository, tag, version)
checkout_tag_or_branch(ctx0, rem, tag, version) ==
    TagOrBranch(RevparseTag(FetchAllTags(ctx0, rem), tag), rem, tag, version)

-----------------------------------------------------------------------------
(* ObservingEnvironment *)

\* ObservingEnvironment::default, repositories: the keys of the registry the
\* model works on.
Repositories == {S_cwfs, S_ts_wep, S_atmospec}

\* ObsEnvError: GIT(String) or ERROR(String); the message is kept as the
\* parts the format string puts into it.
ObsEnvError(kind, msg, repo, tag, version, cause) ==
    [kind |-> kind, msg |-> msg, repo |-> repo, tag |-> tag, version |-> version,
     cause |-> cause]
NoError == ObsEnvError("none", "none", EmptyStr, EmptyStr, EmptyStr, "none")

\* What a method returns, with the working copy it leaves and the calls it made.
Outcome(ok, err, w, trace) == [ok |-> ok, err |-> err, w |-> w, trace |-> trace]

\* The origin of a directory name: one that has none publishes nothing.
NoRemote == [tags |-> NoRefs, branches |-> NoRefs]
RemoteOf(rem, name) == IF name \in DOMAIN rem THEN rem[name] ELSE NoRemote

\* Repository::open(destination/name)
Open(dsk, name) == IF name \in DOMAIN dsk THEN dsk[name] ELSE NotCloned

\* The match of reset_index_to_version on the result of checkout_tag_or_branch.
ResetResult(c, repo, tag, version) ==
    IF c.ok THEN Outcome(TRUE, NoError, c.w, c.trace)
    ELSE Outcome(FALSE,
                 ObsEnvError("GIT", "Could not checkout tag or branch", repo, tag,
                             version, c.cause),
                 c.w, c.trace)

\* reset_index_to_version that hands the tag name on as the branch name too.
reset_index_to_version_tag_as_branch(dsk, rem, net, repo, version) ==
    IF ~Open(dsk, repo).present
    THEN Outcome(FALSE,
                 ObsEnvError("GIT", "Failed to open repository", repo, EmptyStr,
                             EmptyStr, "none"),
                 Open(dsk, repo), <<>>)
    ELSE ResetResult(
             checkout_tag_or_branch(Begin(Open(dsk, repo), net), rem,
                                    expand_version_to_tag(version),
                                    expand_version_to_tag(version)),
             repo, expand_version_to_tag(version), version)

\* ObservingEnvironment::reset_index_to_version(repo, version)
reset_index_to_version(dsk, rem, net, repo, version) ==
    IF ~Open(dsk, repo).present
    THEN Outcome(FALSE,
                 ObsEnvError("GIT", "Failed to open repository", repo, EmptyStr,
                             EmptyStr, "none"),
                 Open(dsk, repo), <<>>)
    ELSE ResetResult(
             checkout_tag_or_branch(Begin(Open(dsk, repo), net), rem,
                                    expand_version_to_tag(version), version),
             repo, expand_version_to_tag(version), version)

\* The match of ObservingEnvironment::checkout_branch on the result of
\* checkout_branch.
BranchResult(c, branch_name) ==
    IF c.ok THEN Outcome(TRUE, NoError, c.w, c.trace)
    ELSE Outcome(FALSE,
                 ObsEnvError("GIT", "Failed to checkout branch", EmptyStr, EmptyStr,
                             branch_name, c.cause),
                 c.w, c.trace)

\* ObservingEnvironment::checkout_branch without the look-up of the name in
\* the registry.
env_checkout_branch_any_name(dsk, rem, net, repo_name, branch_name) ==
    IF ~Open(dsk, repo_name).present
    THEN Outcome(FALSE,
                 ObsEnvError("GIT", "Failed to open repository", repo_name, EmptyStr,
                             EmptyStr, "open failed"),
                 Open(dsk, repo_name), <<>>)
    ELSE BranchResult(checkout_branch(Begin(Open(dsk, repo_name), net), rem,
                                      branch_name),
                      branch_name)

\* ObservingEnvironment::checkout_branch(repo_name, branch_name)
env_checkout_branch(dsk, rem, net, repo_name, branch_name) ==
    IF repo_name \notin Repositories
    THEN Outcome(FALSE,
                 ObsEnvError("ERROR", "not in the list of managed repositories",
                             repo_name, EmptyStr, EmptyStr, "none"),
                 Open(dsk, repo_name), <<>>)
    ELSE IF ~Open(dsk, repo_name).present
    THEN Outcome(FALSE,
                 ObsEnvError("GIT", "Failed to open repository", repo_name, EmptyStr,
                             EmptyStr, "open failed"),
                 Open(dsk, repo_name), <<>>)
    ELSE BranchResult(checkout_branch(Begin(Open(dsk, repo_name), net), rem,
                                      branch_name),
                      branch_name)

-----------------------------------------------------------------------------
(* The baseline loader *)

\* The characters of the model in byte order (Rust orders String by bytes).
ByteOrder ==
    <<" ", "#", "-", ".", "/", "0","1","2","3","4","5","6","7","8","9", "=",
      "A","B","C","D","E","F","G","H","I","J","K","L","M",
      "N","O","P","Q","R","S","T","U","V","W","X","Y","Z", "_",
      "a","b","c","d","e","f","g","h","i","j","k","l","m",
      "n","o","p","q","r","s","t","u","v","w","x","y","z">>
ByteRank ==
    [c \in {ByteOrder[i] : i \in 1..Len(ByteOrder)} |->
        CHOOSE i \in 1..Len(ByteOrder) : ByteOrder[i] = c]
Byte(c) == ByteRank[c]

\* Ord for String: lexicographic by bytes, a proper prefix first.
RECURSIVE StrLess(_, _)
StrLess(a, b) ==
    IF b = <<>> THEN FALSE
    ELSE IF a = <<>> THEN TRUE
    ELSE IF Head(a) = Head(b) THEN StrLess(Tail(a), Tail(b))
    ELSE Byte(Head(a)) < Byte(Head(b))

\* BTreeMap iteration: the keys in ascending order.
RECURSIVE SortedKeys(_)
SortedKeys(S) ==
    IF S = {} THEN <<>>
    ELSE LET m == CHOOSE k \in S : \A j \in S \ {k} : StrLess(k, j)
         IN <<m>> \o SortedKeys(S \ {m})

\* [a-zA-Z0-9_] and [a-zA-Z0-9._] of REPO_VERSION_REGEXP
NameChars == Lower \cup Upper \cup Digits \cup {"_"}
VersionChars == NameChars \cup {"."}

\* First index >= i of s holding character c (Len(s)+1 if none).
RECURSIVE IndexOf(_, _, _)
IndexOf(s, c, i) ==
    IF i > Len(s) \/ s[i] = c THEN i ELSE IndexOf(s, c, i + 1)

\* Start of the run of characters of cs that ends right before index j.
RECURSIVE RunStart(_, _, _)
RunStart(s, j, cs) ==
    IF j > 1 /\ s[j - 1] \in cs THEN RunStart(s, j - 1, cs) ELSE j

\* Regex::captures for REPO_VERSION_REGEXP: the leftmost match of
\* (?P<name>[a-zA-Z0-9_]*)=(?P<version>[a-zA-Z0-9._]*), which is the one at
\* the first '=' of the line.
CapturesAtEq(line, eq) ==
    IF eq > Len(line) THEN [matched |-> FALSE, name |-> EmptyStr, version |-> EmptyStr]
    ELSE [matched |-> TRUE,
          name |-> SubSeq(line, RunStart(line, eq, NameChars), eq - 1),
          version |-> SubSeq(line, eq + 1, SkipChars(line, eq + 1, VersionChars) - 1)]
Captures(line) == CapturesAtEq(line, IndexOf(line, "=", 1))

\* base_env_def.iter().find(|line| line.starts_with(repo_name)): the index of
\* the first such line, 0 if there is none.
FindLine(lines, repo_name) ==
    IF \E i \in 1..Len(lines) : StartsWith(lines[i], repo_name)
    THEN CHOOSE i \in 1..Len(lines) :
             /\ StartsWith(lines[i], repo_name)
             /\ \A j \in 1..(i - 1) : ~StartsWith(lines[j], repo_name)
    ELSE 0

\* regex.captures(line) on what find returned
CapturesAt(lines, i) == IF i = 0 THEN Captures(<<>>) ELSE Captures(lines[i])

\* The pair of a capture goes into the map; no capture, no entry.
Insert(acc, cap) == IF cap.matched THEN Put(acc, cap.name, cap.version) ELSE acc

\* The (name, version) pairs collected into the BTreeMap, repository by
\* repository in registry order; a later pair replaces an earlier one of the
\* same name.
RECURSIVE CollectVersions(_, _, _)
CollectVersions(lines, names, acc) ==
    IF names = <<>> THEN acc
    ELSE CollectVersions(lines, Tail(names),
                         Insert(acc, CapturesAt(lines, FindLine(lines, Head(names)))))

\* ObservingEnvironment::default: base_env_source_repo and its default branch.
S_ts_cycle_build == <<"t","s","_","c","y","c","l","e","_","b","u","i","l","d">>
\* What a commit of the definitions repository holds at cycle/cycle.env: the
\* lines of the file, or no file.
NoFile == [exists |-> FALSE, lines |-> <<>>]
FileOf(lines) == [exists |-> TRUE, lines |-> lines]
NoFiles == [x \in {} |-> NoFile]

\* The definitions repository when it was never cloned.
CycleNotCloned == [present |-> FALSE, rtrack |-> NoFiles, file |-> NoFile]

\* update_base_env_source without its last step, the hard reset: the working
\* tree keeps the file it had.
update_base_env_source_without_reset(cdsk, crem, net, base_env_branch) ==
    LET cloned == net > 0 /\ ~cdsk.present
        c0 == IF cloned
              THEN [present |-> TRUE, rtrack |-> crem.branches,
                    file |-> crem.branches[S_main]]
              ELSE cdsk
        left == IF cloned THEN net - 1 ELSE net
        fetched == left > 0
        c1 == IF fetched /\ base_env_branch \in DOMAIN crem.branches
              THEN [c0 EXCEPT !.rtrack = Put(@, base_env_branch,
                                             crem.branches[base_env_branch])]
              ELSE c0
    IN IF ~cdsk.present /\ ~cloned
       THEN [ok |-> FALSE, cdsk |-> cdsk, cause |-> "network",
             trace |-> <<Call("clone", S_ts_cycle_build)>>]
       ELSE IF ~fetched
       THEN [ok |-> FALSE, cdsk |-> c0, cause |-> "network",
             trace |-> <<Call("fetch", base_env_branch)>>]
       ELSE IF base_env_branch \notin DOMAIN c1.rtrack
       THEN [ok |-> FALSE, cdsk |-> c1, cause |-> "reference not found",
             trace |-> <<Call("fetch", base_env_branch),
                         Call("find_branch", base_env_branch)>>]
       ELSE [ok |-> TRUE, cdsk |-> c1, cause |-> "none",
             trace |-> <<Call("fetch", base_env_branch),
                         Call("find_branch", base_env_branch),
                         Call("reset", EmptyStr)>>]

\* ObservingEnvironment::get_base_env_source_repo and update_base_env_source:
\* clone or open the definitions repository, fetch the branch, find its
\* remote-tracking ref and hard-reset to it. A commit of that repository is
\* represented by the content of cycle/cycle.env at it.
update_base_env_source(cdsk, crem, net, base_env_branch) ==
    LET cloned == net > 0 /\ ~cdsk.present
        c0 == IF cloned
              THEN [present |-> TRUE, rtrack |-> crem.branches,
                    file |-> crem.branches[S_main]]
              ELSE cdsk
        left == IF cloned THEN net - 1 ELSE net
        fetched == left > 0
        c1 == IF fetched /\ base_env_branch \in DOMAIN crem.branches
              THEN [c0 EXCEPT !.rtrack = Put(@, base_env_branch,
                                             crem.branches[base_env_branch])]
              ELSE c0
    IN IF ~cdsk.present /\ ~cloned
       THEN [ok |-> FALSE, cdsk |-> cdsk, cause |-> "network",
             trace |-> <<Call("clone", S_ts_cycle_build)>>]
       ELSE IF ~fetched
       THEN [ok |-> FALSE, cdsk |-> c0, cause |-> "network",
             trace |-> <<Call("fetch", base_env_branch)>>]
       ELSE IF base_env_branch \notin DOMAIN c1.rtrack
       THEN [ok |-> FALSE, cdsk |-> c1, cause |-> "reference not found",
             trace |-> <<Call("fetch", base_env_branch),
                         Call("find_branch", base_env_branch)>>]
       ELSE [ok |-> TRUE, cdsk |-> [c1 EXCEPT !.file = c1.rtrack[base_env_branch]],
             cause |-> "none",
             trace |-> <<Call("fetch", base_env_branch),
                         Call("find_branch", base_env_branch),
                         Call("reset", EmptyStr)>>]

\* self.repositories.keys(): the registry in BTreeMap order
RegistryKeys == SortedKeys(Repositories)

\* ObservingEnvironment::load_base_env_def_file: File::open and the lines read.
S_cycle_env == <<"c","y","c","l","e","/","c","y","c","l","e",".","e","n","v">>
load_base_env_def_file(cdsk) ==
    IF cdsk.file.exists
    THEN [ok |-> TRUE, lines |-> cdsk.file.lines, cause |-> "none"]
    ELSE [ok |-> FALSE, lines |-> <<>>, cause |-> "No such file or directory"]

\* The match of get_base_env_versions on the result of load_base_env_def_file.
LoadedVersions(u, f) ==
    IF ~f.ok
    THEN [ok |-> FALSE, cdsk |-> u.cdsk, versions |-> NoRefs,
          trace |-> Append(u.trace, Call("open_file", S_cycle_env)),
          err |-> ObsEnvError("ERROR", "load_base_env_def_file", EmptyStr,
                              EmptyStr, EmptyStr, f.cause)]
    ELSE [ok |-> TRUE, cdsk |-> u.cdsk,
          trace |-> Append(u.trace, Call("open_file", S_cycle_env)),
          err |-> NoError,
          versions |-> CollectVersions(f.lines, RegistryKeys, NoRefs)]

\* get_base_env_versions going on to read the file whatever
\* update_base_env_source returned.
BaseEnvVersions_ignoring_update(u) ==
    LoadedVersions([u EXCEPT !.ok = TRUE], load_base_env_def_file(u.cdsk))

\* The match of get_base_env_versions on the result of update_base_env_source.
BaseEnvVersions(u) ==
    IF ~u.ok
    THEN [ok |-> FALSE, cdsk |-> u.cdsk, versions |-> NoRefs, trace |-> u.trace,
          err |-> ObsEnvError("ERROR", "update_base_env_source", EmptyStr,
                              EmptyStr, EmptyStr, u.cause)]
    ELSE LoadedVersions(u, load_base_env_def_file(u.cdsk))

\* ObservingEnvironment::get_base_env_versions(base_env_branch)
get_base_env_versions(cdsk, crem, net, base_env_branch) ==
    BaseEnvVersions(update_base_env_source(cdsk, crem, net, base_env_branch))


-----------------------------------------------------------------------------
(* The fleet reset *)

\* The calls of one method on one repository, as entries of the fleet's log:
\* the method call itself first, then the backend calls it made.
Tagged(repo, method, arg, trace) ==
    <<[repo |-> repo, call |-> method, arg |-> arg]>> \o
    [i \in 1..Len(trace) |-> [repo |-> repo, call |-> trace[i].call, arg |-> trace[i].arg]]

\* A directory name without an origin is never reached.
NetOf(net, name) == IF name \in DOMAIN net THEN net[name] ELSE 0

Store(dsk, name, w) == IF name \in DOMAIN dsk THEN [dsk EXCEPT ![name] = w] ELSE dsk

\* The first pass with the filter lost: every entry is a miss.
OverrideStep_all_missed(st, repo, run_branch, o) ==
    [st EXCEPT !.dsk = Store(@, repo, o.w),
               !.misses = Append(@, repo),
               !.trace = @ \o Tagged(repo, "checkout_branch", run_branch, o.trace)]

\* filter_map of the first pass: a repository whose checkout_branch returned
\* an error is a miss.
OverrideStep(st, repo, run_branch, o) ==
    [st EXCEPT !.dsk = Store(@, repo, o.w),
               !.misses = IF o.ok THEN @ ELSE Append(@, repo),
               !.trace = @ \o Tagged(repo, "checkout_branch", run_branch, o.trace)]

\* The first pass of reset_base_environment when run_branch is not empty:
\* checkout_branch(repo, run_branch) for every entry of the map, in its order.
RECURSIVE OverridePass(_, _, _, _, _)
OverridePass(st, keys, rem, net, run_branch) ==
    IF keys = <<>> THEN st
    ELSE OverridePass(
             OverrideStep(st, Head(keys), run_branch,
                          env_checkout_branch(st.dsk, RemoteOf(rem, Head(keys)),
                                              NetOf(net, Head(keys)), Head(keys),
                                              run_branch)),
             Tail(keys), rem, net, run_branch)

\* The second pass collecting the errors newest first.
ResetStep_errors_prepended(st, repo, version, o) ==
    [st EXCEPT !.dsk = Store(@, repo, o.w),
               !.errs = IF o.ok THEN @ ELSE <<o.err>> \o @,
               !.trace = @ \o Tagged(repo, "reset_index_to_version", version, o.trace)]

\* The second pass keeping only the last error.
ResetStep_last_error_only(st, repo, version, o) ==
    [st EXCEPT !.dsk = Store(@, repo, o.w),
               !.errs = IF o.ok THEN @ ELSE <<o.err>>,
               !.trace = @ \o Tagged(repo, "reset_index_to_version", version, o.trace)]

\* filter and unwrap_err of the second pass: the errors are kept.
ResetStep(st, repo, version, o) ==
    [st EXCEPT !.dsk = Store(@, repo, o.w),
               !.errs = IF o.ok THEN @ ELSE Append(@, o.err),
               !.trace = @ \o Tagged(repo, "reset_index_to_version", version, o.trace)]

\* The second pass returning at the first error (a `?` inside the loop).
RECURSIVE ResetPass_stop_at_error(_, _, _, _, _)
ResetPass_stop_at_error(st, keys, rem, net, versions) ==
    IF keys = <<>> \/ st.errs # <<>> THEN st
    ELSE ResetPass_stop_at_error(
             ResetStep(st, Head(keys), versions[Head(keys)],
                       reset_index_to_version(st.dsk, RemoteOf(rem, Head(keys)),
                                              NetOf(net, Head(keys)), Head(keys),
                                              versions[Head(keys)])),
             Tail(keys), rem, net, versions)

\* The second pass: reset_index_to_version(repo, version) for every miss, in
\* order.
RECURSIVE ResetPass(_, _, _, _, _)
ResetPass(st, keys, rem, net, versions) ==
    IF keys = <<>> THEN st
    ELSE ResetPass(
             ResetStep(st, Head(keys), versions[Head(keys)],
                       reset_index_to_version(st.dsk, RemoteOf(rem, Head(keys)),
                                              NetOf(net, Head(keys)), Head(keys),
                                              versions[Head(keys)])),
             Tail(keys), rem, net, versions)

\* let run_branch_misses = ...: the first pass, or every entry of the map
\* when run_branch is empty.
RunBranchMisses(st0, keys, rem, net, run_branch) ==
    IF Len(run_branch) > 0
    THEN OverridePass(st0, keys, rem, net, run_branch)
    ELSE [st0 EXCEPT !.misses = keys]

\* if reset_result.is_empty() { Ok(()) } else { Err(reset_result) }
FleetResult(b, st1, st2) ==
    [ok |-> st2.errs = <<>>, errs |-> st2.errs, dsk |-> st2.dsk, cdsk |-> b.cdsk,
     trace |-> st2.trace, versions |-> b.versions, misses |-> st1.misses]

SecondPass(b, st1, rem, net) ==
    FleetResult(b, st1, ResetPass(st1, st1.misses, rem, net, b.versions))

\* One pass over the map: a repository whose checkout_branch returned an
\* error is reset at once, before the next repository is tried.
RECURSIVE OnePass(_, _, _, _, _, _)
OnePass(st, keys, rem, net, run_branch, versions) ==
    IF keys = <<>> THEN st
    ELSE LET repo == Head(keys)
             tried == OverrideStep(st, repo, run_branch,
                          env_checkout_branch(st.dsk, RemoteOf(rem, repo),
                                              NetOf(net, repo), repo, run_branch))
         IN OnePass(IF Len(tried.misses) = Len(st.misses) THEN tried
                    ELSE ResetStep(tried, repo, versions[repo],
                             reset_index_to_version(tried.dsk, RemoteOf(rem, repo),
                                                    NetOf(net, repo), repo,
                                                    versions[repo])),
                    Tail(keys), rem, net, run_branch, versions)
OnePassResult(b, st) == FleetResult(b, st, st)
ResetWith_one_pass(b, dsk, rem, net, base_env_branch, run_branch) ==
    IF ~b.ok
    THEN [ok |-> FALSE, errs |-> <<b.err>>, dsk |-> dsk, cdsk |-> b.cdsk,
          trace |-> Tagged(S_ts_cycle_build, "get_base_env_versions",
                           base_env_branch, b.trace),
          versions |-> b.versions, misses |-> <<>>]
    ELSE IF Len(run_branch) = 0
    THEN SecondPass(b,
                    RunBranchMisses(
                        [dsk |-> dsk, misses |-> <<>>, errs |-> <<>>,
                         trace |-> Tagged(S_ts_cycle_build, "get_base_env_versions",
                                          base_env_branch, b.trace)],
                        SortedKeys(DOMAIN b.versions), rem, net, run_branch),
                    rem, net)
    ELSE OnePassResult(b,
             OnePass([dsk |-> dsk, misses |-> <<>>, errs |-> <<>>,
                      trace |-> Tagged(S_ts_cycle_build, "get_base_env_versions",
                                       base_env_branch, b.trace)],
                     SortedKeys(DOMAIN b.versions), rem, net, run_branch,
                     b.versions))

\* The match of reset_base_environment on the result of get_base_env_versions.
ResetWith(b, dsk, rem, net, base_env_branch, run_branch) ==
    IF ~b.ok
    THEN [ok |-> FALSE, errs |-> <<b.err>>, dsk |-> dsk, cdsk |-> b.cdsk,
          trace |-> Tagged(S_ts_cycle_build, "get_base_env_versions",
                           base_env_branch, b.trace),
          versions |-> b.versions, misses |-> <<>>]
    ELSE SecondPass(b,
                    RunBranchMisses(
                        [dsk |-> dsk, misses |-> <<>>, errs |-> <<>>,
                         trace |-> Tagged(S_ts_cycle_build, "get_base_env_versions",
                                          base_env_branch, b.trace)],
                        SortedKeys(DOMAIN b.versions), rem, net, run_branch),
                    rem, net)

\* ObservingEnvironment::reset_base_environment(base_env_branch, run_branch).
\* net[name] is the number of fetches the origin of that repository lets
\* through during the call.
reset_base_environment(dsk, cdsk, rem, crem, net, base_env_branch, run_branch) ==
    ResetWith(get_base_env_versions(cdsk, crem, NetOf(net, S_ts_cycle_build),
                                    base_env_branch),
              dsk, rem, net, base_env_branch, run_branch)

-----------------------------------------------------------------------------
(* The state machine *)

S_run == <<"r","u","n">>
S_vtag == expand_version_to_tag(S_100a1)

\* cycle/cycle.env as published on the main branch of ts_cycle_build
L_comment == <<"#"," ","c","y","c","l","e">>
L_cwfs == <<"c","w","f","s","=","1",".","0",".","0","a","1">>
L_ts_wep == <<"t","s","_","w","e","p","=","1",".","0",".","0","a","1">>
L_atmospec == <<"a","t","m","o","s","p","e","c","=","m","a","i","n">>
CycleEnv == <<L_comment, L_cwfs, L_ts_wep, L_atmospec>>

\* Other contents the definitions file is published with.
L_cwfs_main == <<"c","w","f","s","=","m","a","i","n">>
L_cwfs_bare == <<"c","w","f","s"," ","1",".","0">>
L_ts_wep_extra == <<"t","s","_","w","e","p","_","e","x","t","r","a","=","2",".","0">>
\* the version of cwfs moved, atmospec dropped
MovedEnv == <<L_cwfs_main, L_ts_wep>>
\* a component whose name begins with the name of a managed repository
PrefixEnv == <<L_ts_wep_extra, L_ts_wep, L_cwfs_main>>
\* a line that begins with a managed name and holds no '='
BareEnv == <<L_cwfs_bare, L_cwfs_main>>
\* two lines for one repository
TwiceEnv == <<L_cwfs_main, L_cwfs>>
Files == {FileOf(CycleEnv), FileOf(MovedEnv), FileOf(PrefixEnv), FileOf(BareEnv),
          FileOf(TwiceEnv), NoFile}

\* What the last action was: its inputs, what it returned, the calls it made,
\* what run returned and what it sent to the REST proxy.
Record(op, repo, arg, net, ok, errs, trace, versions, misses) ==
    [op |-> op, repo |-> repo, arg |-> arg, net |-> net, ok |-> ok, errs |-> errs,
     trace |-> trace, versions |-> versions, misses |-> misses, clones |-> <<>>,
     result |-> "Ok", proxy |-> "none", sends |-> <<>>]
EnvRecord(op, repo, arg) == Record(op, repo, arg, NoRefs, TRUE, <<>>, <<>>, NoRefs, <<>>)
OneNet(repo, net) == [r \in {repo} |-> net]
Errs(o) == IF o.ok THEN <<>> ELSE <<o.err>>

\* Repository::clone: every tag and branch of the origin is fetched and the
\* origin's default branch (main) is checked out.
Cloned(rem) ==
    [present |-> TRUE, tags |-> rem.tags, rtrack |-> rem.branches,
     heads |-> Put(NoRefs, S_main, rem.branches[S_main]),
     head |-> OnBranch(S_main), wt |-> rem.branches[S_main], dirty |-> FALSE]

\* clone_repositories giving up at the first clone that fails.
clone_repositories_stop_at_failure(dsk, rem, net) ==
    [r \in DOMAIN dsk |->
        IF /\ ~dsk[r].present
           /\ net[r] > 0
           /\ \A q \in DOMAIN dsk : (~dsk[q].present /\ StrLess(q, r)) => net[q] > 0
        THEN Cloned(rem[r]) ELSE dsk[r]]

\* ObservingEnvironment::clone_repositories: the repositories whose path does
\* not exist are cloned; a clone that fails leaves no directory.
clone_repositories(dsk, rem, net) ==
    [r \in DOMAIN dsk |->
        IF ~dsk[r].present /\ net[r] > 0 THEN Cloned(rem[r]) ELSE dsk[r]]

\* The clones clone_repositories attempts, in registry order.
Missing(dsk) == SortedKeys({r \in DOMAIN dsk : ~dsk[r].present})
CloneTraceOf(keys) ==
    [i \in 1..Len(keys) |-> [repo |-> keys[i], call |-> "clone", arg |-> keys[i]]]
CloneTrace(dsk) == CloneTraceOf(Missing(dsk))

\* The Vec<Result<Repository, Error>> clone_repositories returns: one result
\* for each clone attempted, in the order of the attempts.
CloneResultsOf(keys, net) ==
    [i \in 1..Len(keys) |-> [repo |-> keys[i], ok |-> net[keys[i]] > 0]]
CloneResults(dsk, net) == CloneResultsOf(Missing(dsk), net)

\* create_path and create_setup_file: the destination directory exists and
\* auto_env_setup.sh is written anew.
NoHost == [path |-> FALSE, setup_file |-> 0]
create_path(h) == [h EXCEPT !.path = TRUE]
create_setup_file(h) == [h EXCEPT !.setup_file = 1]

\* The sidecar process before it is started.
NotStarted ==
    [pc |-> "down", proxy |-> FALSE, pos |-> 0, stream |-> <<>>, applied |-> <<>>,
     logged |-> <<>>]

Init ==
    /\ remote = [r \in Repositories |->
                    [tags |-> NoRefs, branches |-> Put(NoRefs, S_main, 1)]]
    /\ disk = [r \in Repositories |-> NotCloned]
    /\ cycleRemote = [branches |-> Put(NoFiles, S_main, FileOf(CycleEnv))]
    /\ cycleDisk = CycleNotCloned
    /\ host = NoHost
    /\ sidecar = NotStarted
    /\ last = EnvRecord("init", EmptyStr, EmptyStr)

-----------------------------------------------------------------------------
(* What run sends to the REST proxy *)

\* The abbreviated object id of a commit.
Oid(commit) == Decimal(commit)
\* The tags describe can start from: those on the commit of HEAD or on one
\* before it.
DescribableTags(w) == {t \in DOMAIN w.tags : w.tags[t] <= HeadCommit(w)}
NearestTag(w) ==
    CHOOSE t \in DescribableTags(w) :
        \A u \in DescribableTags(w) :
            \/ w.tags[u] < w.tags[t]
            \/ w.tags[u] = w.tags[t] /\ (u = t \/ StrLess(t, u))
\* repository.describe(describe_tags) and, when no tag is found, describe with
\* show_commit_oid_as_fallback; description.format(None)
Describe(w) ==
    IF DescribableTags(w) = {} THEN Oid(HeadCommit(w))
    ELSE IF w.tags[NearestTag(w)] = HeadCommit(w) THEN NearestTag(w)
    ELSE NearestTag(w) \o <<"-">> \o Decimal(HeadCommit(w) - w.tags[NearestTag(w)])
             \o <<"-", "g">> \o Oid(HeadCommit(w))

\* ObservingEnvironment::get_current_version
get_current_version(dsk, repo_name) ==
    IF ~Open(dsk, repo_name).present
    THEN [ok |-> FALSE, version |-> EmptyStr,
          err |-> ObsEnvError("GIT", "Failed to open repository", repo_name, EmptyStr,
                              EmptyStr, "open failed")]
    ELSE [ok |-> TRUE, version |-> Describe(Open(dsk, repo_name)), err |-> NoError]

\* The keys of the registry that are followed here, as the keys of a map, and
\* the directory each one names.
Followed == {"atmospec", "cwfs", "ts_wep"}
Directory(key) ==
    CASE key = "atmospec" -> S_atmospec
      [] key = "cwfs" -> S_cwfs
      [] key = "ts_wep" -> S_ts_wep

\* ObservingEnvironment::get_current_env_versions
get_current_env_versions(dsk) ==
    [key \in Followed |-> get_current_version(dsk, Directory(key))]

\* Display for ObsEnvError: the kind, a colon and the message, kept as the
\* parts the message was made of.
to_string(error) == <<error.kind, ": ", error.msg, " ">> \o error.repo
S_Unknown == <<"U","n","k","n","o","w","n">>

\* extract_value!(item, container)
extract_value(item, container) ==
    IF item \in DOMAIN container
    THEN IF container[item].ok THEN [text |-> container[item].version]
         ELSE [text |-> to_string(container[item].err)]
    ELSE [text |-> S_Unknown]

\* Summary::from_btree_map
Summary_from_btree_map(summary) ==
    [kind |-> "summary",
     spectractor |-> extract_value("spectractor", summary),
     atmospec |-> extract_value("atmospec", summary),
     cwfs |-> extract_value("cwfs", summary),
     summit_extras |-> extract_value("summit_extras", summary),
     summit_utils |-> extract_value("summit_utils ", summary),
     ts_config_attcs |-> extract_value("ts_config_attcs", summary),
     ts_config_ocs |-> extract_value("ts_config_ocs", summary),
     ts_externalscripts |-> extract_value("ts_externalscripts", summary),
     ts_observatory_control |-> extract_value("ts_observatory_control", summary),
     ts_observing_utilities |-> extract_value("ts_observing_utilities", summary),
     ts_standardscripts |-> extract_value("ts_standardscripts", summary),
     ts_wep |-> extract_value("ts_wep", summary)]

\* ActionData::new(action, repository, branch_name)
ActionData(action, repository, branch_name) ==
    [kind |-> "action", action |-> action, repository |-> repository,
     branch_name |-> branch_name]

\* SASQUATCH_REST_PROXY_URL is not set, or it is and the proxy accepts the
\* request, answers with an error status, or cannot be reached.
Proxies == {"unset", "accepts", "rejects", "unreachable"}

\* send_payload: the request is made when the variable is set, and the
\* message is on the topic when the proxy accepted it.
send_payload(payload, topic_name, proxy) ==
    [topic |-> topic_name, payload |-> payload, posted |-> proxy # "unset",
     delivered |-> proxy = "accepts"]
send_action_data(action, repository, branch_name, proxy) ==
    send_payload(ActionData(action, repository, branch_name), "action", proxy)
send_summary_data(current_versions, proxy) ==
    send_payload(Summary_from_btree_map(current_versions), "summary", proxy)

\* The summary sent before the action.
ActionThenSummary_summary_first(action, repository, branch_name, dsk2, proxy) ==
    <<send_summary_data(get_current_env_versions(dsk2), proxy),
      send_action_data(action, repository, branch_name, proxy)>>
\* send_action_data, then get_current_env_versions and send_summary_data
ActionThenSummary(action, repository, branch_name, dsk2, proxy) ==
    <<send_action_data(action, repository, branch_name, proxy),
      send_summary_data(get_current_env_versions(dsk2), proxy)>>

\* The messages sent whether the checkout failed or not.
CheckoutSends_on_failure_too(ok, action, repository, branch_name, dsk2, proxy) ==
    ActionThenSummary(action, repository, branch_name, dsk2, proxy)
\* A checkout that failed has returned from run with `?` before anything
\* is sent.
CheckoutSends(ok, action, repository, branch_name, dsk2, proxy) ==
    IF ok THEN ActionThenSummary(action, repository, branch_name, dsk2, proxy)
    ELSE <<>>

\* What run returned, and what it sent with which proxy.
Ran(record, result, proxy, sends) ==
    [record EXCEPT !.result = result, !.proxy = proxy, !.sends = sends]

-----------------------------------------------------------------------------
(* The actions *)

\* create_path, clone_repositories, create_setup_file, as run does for
\* Action::Setup and as the sidecar does when it starts.
SetupDone(net, proxy, sends) ==
    /\ host' = create_setup_file(create_path(host))
    /\ disk' = clone_repositories(disk, remote, net)
    /\ last' = Ran([Record("setup", EmptyStr, EmptyStr, net, TRUE, <<>>,
                            CloneTrace(disk), NoRefs, <<>>)
                        EXCEPT !.clones = CloneResults(disk, net)],
                   "Ok", proxy, sends)
    /\ UNCHANGED <<remote, cycleRemote, cycleDisk>>

\* run, Action::Setup
SetupRun(net, proxy) ==
    SetupDone(net, proxy,
              ActionThenSummary("setup", EmptyStr, EmptyStr,
                                clone_repositories(disk, remote, net), proxy))
Setup(net, proxy) == SetupRun(net, proxy) /\ UNCHANGED sidecar

\* The Result of run for a checkout: the error of the method is returned
\* with `?`.
Propagated(o) == IF o.ok THEN "Ok" ELSE "Err"

CheckoutVersionDone(repo, version, net, proxy, o) ==
    /\ disk' = Store(disk, repo, o.w)
    /\ last' = Ran(Record("checkout-version", repo, version, OneNet(repo, net), o.ok,
                          Errs(o),
                          Tagged(repo, "reset_index_to_version", version, o.trace),
                          NoRefs, <<>>),
                   Propagated(o), proxy,
                   CheckoutSends(o.ok, "checkout-version", repo, version,
                                 Store(disk, repo, o.w), proxy))
    /\ UNCHANGED <<remote, cycleRemote, cycleDisk, host>>

\* run, Action::CheckoutVersion: reset_index_to_version(repository, version)
CheckoutVersion(repo, version, net, proxy) ==
    /\ CheckoutVersionDone(repo, version, net, proxy,
           reset_index_to_version(disk, RemoteOf(remote, repo), net, repo, version))
    /\ UNCHANGED sidecar

CheckoutBranchDone(repo, branch_name, net, proxy, o) ==
    /\ disk' = Store(disk, repo, o.w)
    /\ last' = Ran(Record("checkout-branch", repo, branch_name, OneNet(repo, net),
                          o.ok, Errs(o),
                          Tagged(repo, "checkout_branch", branch_name, o.trace),
                          NoRefs, <<>>),
                   Propagated(o), proxy,
                   CheckoutSends(o.ok, "checkout-branch", repo, branch_name,
                                 Store(disk, repo, o.w), proxy))
    /\ UNCHANGED <<remote, cycleRemote, cycleDisk, host>>

\* run, Action::CheckoutBranch: checkout_branch(repository, branch_name)
CheckoutBranch(repo, branch_name, net, proxy) ==
    /\ CheckoutBranchDone(repo, branch_name, net, proxy,
           env_checkout_branch(disk, RemoteOf(remote, repo), net, repo, branch_name))
    /\ UNCHANGED sidecar

\* The errors of reset_base_environment are logged and run goes on: it
\* sends the action and the summary and returns Ok.
ResetDone(run_branch, net, proxy, o) ==
    /\ disk' = o.dsk
    /\ cycleDisk' = o.cdsk
    /\ last' = Ran(Record("reset", EmptyStr, run_branch, net, o.ok, o.errs, o.trace,
                          o.versions, o.misses),
                   "Ok", proxy,
                   ActionThenSummary("reset", EmptyStr, EmptyStr, o.dsk, proxy))
    /\ UNCHANGED <<remote, cycleRemote, host>>

\* run, Action::Reset: reset_base_environment(base_env_branch, run_branch)
Reset(base_env_branch, run_branch, net, proxy) ==
    /\ ResetDone(run_branch, net, proxy,
           reset_base_environment(disk, cycleDisk, remote, cycleRemote, net,
                                  base_env_branch, run_branch))
    /\ UNCHANGED sidecar

\* run, Action::ShowOriginalVersions: get_base_env_versions(base_env_branch),
\* whose result is logged.
ShowOriginalVersionsDone(base_env_branch, net, proxy, b) ==
    /\ cycleDisk' = b.cdsk
    /\ last' = Ran(Record("show-original-versions", EmptyStr, EmptyStr,
                          OneNet(S_ts_cycle_build, net), b.ok,
                          IF b.ok THEN <<>> ELSE <<b.err>>,
                          Tagged(S_ts_cycle_build, "get_base_env_versions",
                                 base_env_branch, b.trace),
                          b.versions, <<>>),
                   "Ok", proxy,
                   <<send_action_data("show-original-versions", EmptyStr, EmptyStr,
                                      proxy)>>)
    /\ UNCHANGED <<remote, disk, cycleRemote, host, sidecar>>
ShowOriginalVersions(base_env_branch, net, proxy) ==
    ShowOriginalVersionsDone(base_env_branch, net, proxy,
        get_base_env_versions(cycleDisk, cycleRemote, net, base_env_branch))

\* The environment: a new cycle/cycle.env is published on the main branch of
\* the definitions repository (or the file is removed from it).
PublishDefinitions(file) ==
    /\ cycleRemote.branches[S_main] # file
    /\ cycleRemote' = [cycleRemote EXCEPT !.branches[S_main] = file]
    /\ last' = EnvRecord("publish-definitions", S_ts_cycle_build, EmptyStr)
    /\ UNCHANGED <<remote, disk, cycleDisk, host, sidecar>>

\* The environment: a tag is published at the origin (a published tag stays).
PublishTag(repo, tag, commit) ==
    /\ tag \notin DOMAIN remote[repo].tags
    /\ remote' = [remote EXCEPT ![repo].tags = Put(@, tag, commit)]
    /\ last' = EnvRecord("publish-tag", repo, tag)
    /\ UNCHANGED <<disk, cycleRemote, cycleDisk, host, sidecar>>

\* The environment: a branch is created at the origin, or new commits are
\* pushed to it.
PushBranch(repo, branch, commit) ==
    /\ IF branch \in DOMAIN remote[repo].branches
       THEN remote[repo].branches[branch] < commit ELSE TRUE
    /\ remote' = [remote EXCEPT ![repo].branches = Put(@, branch, commit)]
    /\ last' = EnvRecord("push-branch", repo, branch)
    /\ UNCHANGED <<disk, cycleRemote, cycleDisk, host, sidecar>>

\* The environment: a user modifies files of a working copy.
LocalEdit(repo) ==
    /\ disk[repo].present
    /\ ~disk[repo].dirty
    /\ disk' = [disk EXCEPT ![repo].dirty = TRUE]
    /\ last' = EnvRecord("local-edit", repo, EmptyStr)
    /\ UNCHANGED <<remote, cycleRemote, cycleDisk, host, sidecar>>

-----------------------------------------------------------------------------
(* The sidecar *)

\* A message of the topic lsst.obsenv.action: a payload the Avro decoder
\* rejects, a record of another schema, or an ActionData.
Garbage ==
    [kind |-> "garbage", action |-> "none", repository |-> EmptyStr,
     branch_name |-> EmptyStr]
OtherRecord ==
    [kind |-> "other", action |-> "none", repository |-> EmptyStr,
     branch_name |-> EmptyStr]

\* avro_decoder.decode(payload)
decode(m) == [ok |-> m.kind # "garbage", value |-> m]
\* from_value::<ActionData>(value)
from_value(value) == [ok |-> value.kind = "action", action_data |-> value]

\* ActionData::get_action: the four kinds of action the sidecar re-issues.
ActionKinds == {"setup", "reset", "checkout-branch", "checkout-version"}
ActionData_get_action(action_data) ==
    [ok |-> action_data.action \in ActionKinds, action |-> action_data.action]

\* ManageObsEnv::default() with the action, the repository and the branch name
\* of the message; the branch of the definitions is the default one.
ManageObsEnvOf(action_data, action) ==
    [action |-> action, repository_given |-> TRUE,
     repository |-> action_data.repository, branch_name |-> action_data.branch_name,
     base_env_branch_name |-> S_main]

\* ManageObsEnvCli::get_action of ManageObsEnv
ManageObsEnv_get_action(config) ==
    [ok |-> config.action # "checkout-branch" \/ config.repository_given,
     action |-> config.action]

\* The iterator giving the latest message of the topic instead of the next.
NextMessage_latest(s) == s.stream[Len(s.stream)]
\* The message consumer.iter() gives: the one after those received.
NextMessage(s) == s.stream[s.pos + 1]

\* The message has been received.
Take(s) == [s EXCEPT !.pos = @ + 1]
\* log::error! for the message at position p
LogError(s, p, text) ==
    [s EXCEPT !.logged = Append(@, [pos |-> p, text |-> text])]
\* An operation was run for the message at position p and has returned.
Applied(s, p, config, ok) ==
    [s EXCEPT !.applied = Append(@, [pos |-> p, action |-> config.action,
                                     repository |-> config.repository,
                                     branch_name |-> config.branch_name,
                                     ok |-> ok])]

\* The error of run_manage_obs_env returned by run with `?`.
Returned_propagating(s, p, config, ok) ==
    IF ok THEN Applied(s, p, config, TRUE)
    ELSE [Applied(s, p, config, FALSE) EXCEPT !.pc = "crashed"]
\* if let Err(e) = run_manage_obs_env(..) { log::error!(..) }
Returned(s, p, config, ok) ==
    IF ok THEN Applied(s, p, config, TRUE)
    ELSE LogError(Applied(s, p, config, FALSE), p, "Error running manage obs env")
\* run for Action::Reset logs the errors of reset_base_environment and
\* returns Ok.
ResetReturned(s, p, config, ok) ==
    IF ok THEN Applied(s, p, config, TRUE)
    ELSE Applied(LogError(s, p, "Error resetting repositories"), p, config, FALSE)

\* SASQUATCH_REST_PROXY_URL as send_payload finds it in the sidecar: the
\* variable of the process, as it was when the sidecar started.
SidecarProxy(s) == IF s.proxy THEN "accepts" ELSE "unset"
\* The action events the REST proxy accepted are on lsst.obsenv.action, the
\* topic the sidecar receives from.
OnTopic(s, sends) ==
    [s EXCEPT !.stream =
         @ \o [i \in DOMAIN SelectSeq(sends, LAMBDA m : m.topic = "action"
                                                         /\ m.delivered)
                 |-> SelectSeq(sends, LAMBDA m : m.topic = "action"
                                                 /\ m.delivered)[i].payload]]

\* The start that does not look at SASQUATCH_REST_PROXY_URL.
Start_whatever_proxy(proxy, net) ==
    /\ sidecar.pc # "running"
    /\ SetupDone(net, "unset", <<>>)
    /\ sidecar' = [sidecar EXCEPT !.pc = "running", !.proxy = proxy,
                                  !.pos = Len(sidecar.stream)]

\* The start that looks at SASQUATCH_REST_PROXY_URL only after the setup.
Start_refusing_after_setup(proxy, net) ==
    /\ sidecar.pc # "running"
    /\ SetupDone(net, "unset", <<>>)
    /\ sidecar' = [sidecar EXCEPT !.pc = IF proxy THEN "refused" ELSE "running",
                                  !.proxy = proxy,
                                  !.pos = Len(sidecar.stream)]

\* obs_env_sidecar::run up to the loop; proxy: SASQUATCH_REST_PROXY_URL is
\* set. The consumer group is a new one (its id has the process id) and no
\* auto.offset.reset is given: it receives what is published from now on.
Start(proxy, net) ==
    /\ sidecar.pc # "running"
    /\ IF proxy
       THEN /\ sidecar' = [sidecar EXCEPT !.pc = "refused", !.proxy = TRUE]
            /\ UNCHANGED <<remote, disk, cycleRemote, cycleDisk, host, last>>
       ELSE /\ SetupDone(net, "unset", <<>>)
            /\ sidecar' = [sidecar EXCEPT !.pc = "running", !.proxy = FALSE,
                                          !.pos = Len(sidecar.stream)]

\* A run that takes the branch checkout for Action::CheckoutVersion too.
run_manage_obs_env_version_as_branch(config, net, p, s) ==
    IF ~ManageObsEnv_get_action(config).ok
    THEN /\ sidecar' = Returned(s, p, config, FALSE)
         /\ UNCHANGED <<remote, disk, cycleRemote, cycleDisk, host, last>>
    ELSE IF config.action = "setup"
    THEN /\ SetupRun(net, SidecarProxy(s))
         /\ sidecar' = OnTopic(Returned(s, p, config, TRUE), last'.sends)
    ELSE IF config.action = "reset"
    THEN /\ ResetDone(EmptyStr, net, SidecarProxy(s),
                reset_base_environment(disk, cycleDisk, remote, cycleRemote, net,
                                       config.base_env_branch_name, EmptyStr))
         /\ sidecar' = OnTopic(ResetReturned(s, p, config, last'.ok), last'.sends)
    ELSE /\ CheckoutBranchDone(config.repository, config.branch_name,
                NetOf(net, config.repository), SidecarProxy(s),
                env_checkout_branch(disk, RemoteOf(remote, config.repository),
                                    NetOf(net, config.repository),
                                    config.repository, config.branch_name))
         /\ sidecar' = OnTopic(Returned(s, p, config, last'.ok), last'.sends)

\* manage_obs_env::run called by the sidecar. MANAGE_OBS_ENV_EFD_NAME is not
\* set for the sidecar: a reset has no run branch.
run_manage_obs_env(config, net, p, s) ==
    IF ~ManageObsEnv_get_action(config).ok
    THEN /\ sidecar' = Returned(s, p, config, FALSE)
         /\ UNCHANGED <<remote, disk, cycleRemote, cycleDisk, host, last>>
    ELSE IF config.action = "setup"
    THEN /\ SetupRun(net, SidecarProxy(s))
         /\ sidecar' = OnTopic(Returned(s, p, config, TRUE), last'.sends)
    ELSE IF config.action = "reset"
    THEN /\ ResetDone(EmptyStr, net, SidecarProxy(s),
                reset_base_environment(disk, cycleDisk, remote, cycleRemote, net,
                                       config.base_env_branch_name, EmptyStr))
         /\ sidecar' = OnTopic(ResetReturned(s, p, config, last'.ok), last'.sends)
    ELSE IF config.action = "checkout-branch"
    THEN /\ CheckoutBranchDone(config.repository, config.branch_name,
                NetOf(net, config.repository), SidecarProxy(s),
                env_checkout_branch(disk, RemoteOf(remote, config.repository),
                                    NetOf(net, config.repository),
                                    config.repository, config.branch_name))
         /\ sidecar' = OnTopic(Returned(s, p, config, last'.ok), last'.sends)
    ELSE /\ CheckoutVersionDone(config.repository, config.branch_name,
                NetOf(net, config.repository), SidecarProxy(s),
                reset_index_to_version(disk, RemoteOf(remote, config.repository),
                                       NetOf(net, config.repository),
                                       config.repository, config.branch_name))
         /\ sidecar' = OnTopic(Returned(s, p, config, last'.ok), last'.sends)

\* The body of the loop for one message received. A receive error only
\* writes an info line and leaves everything as it is.
Received(m, net, p, s) ==
    IF ~decode(m).ok
    THEN /\ sidecar' = [s EXCEPT !.pc = "crashed"]
         /\ UNCHANGED <<remote, disk, cycleRemote, cycleDisk, host, last>>
    ELSE IF ~from_value(decode(m).value).ok
    THEN /\ sidecar' = LogError(s, p, "Failed to decode message")
         /\ UNCHANGED <<remote, disk, cycleRemote, cycleDisk, host, last>>
    ELSE IF ~ActionData_get_action(m).ok
    THEN /\ sidecar' = LogError(s, p, "invalid action")
         /\ UNCHANGED <<remote, disk, cycleRemote, cycleDisk, host, last>>
    ELSE run_manage_obs_env(ManageObsEnvOf(m, ActionData_get_action(m).action),
                            net, p, s)

\* obs_env_sidecar::run, one turn of the loop
Consume(net) ==
    /\ sidecar.pc = "running"
    /\ sidecar.pos < Len(sidecar.stream)
    /\ Received(NextMessage(sidecar), net, sidecar.pos + 1, Take(sidecar))

\* The environment: an action is published on the topic.
Publish(m, max) ==
    /\ Len(sidecar.stream) < max
    /\ sidecar' = [sidecar EXCEPT !.stream = Append(@, m)]
    /\ UNCHANGED <<remote, disk, cycleRemote, cycleDisk, host, last>>

\* The inputs the actions are tried with.
Studied == {S_cwfs}
Targets == {S_100a1, S_main, S_temp}
\* A name given on the command line that is no key of the registry.
Unmanaged == {S_ts_cycle_build}
Origins == Repositories \cup {S_ts_cycle_build}
AllUp == [r \in Origins |-> 3]
\* No origin, or exactly one, is unreachable during a call.
NetChoices == {AllUp} \cup {[AllUp EXCEPT ![d] = 0] : d \in Origins}

\* One repository followed through every sequence of single-repository actions.
Next ==
    \/ Setup(AllUp, "accepts")
    \/ \E r \in Studied, v \in Targets, net \in 0..2 :
          CheckoutVersion(r, v, net, "accepts")
    \/ \E r \in Studied \cup Unmanaged, b \in Targets, net \in 0..1 :
          CheckoutBranch(r, b, net, "accepts")
    \/ \E r \in Studied : PublishTag(r, S_vtag, MaxCommit)
    \/ \E r \in Studied, c \in Commits : PushBranch(r, S_100a1, c)
    \/ \E r \in Studied : PushBranch(r, S_temp, 1)
    \/ \E r \in Studied : LocalEdit(r)

Spec == Init /\ [][Next]_vars

\* The fleet under baseline resets.
FleetNext ==
    \/ Setup(AllUp, "accepts")
    \/ \E rb \in {EmptyStr, S_run}, net \in NetChoices :
          Reset(S_main, rb, net, "accepts")
    \/ \E r \in {S_cwfs, S_ts_wep} : PublishTag(r, S_vtag, MaxCommit)
    \/ \E r \in {S_cwfs, S_ts_wep} : PushBranch(r, S_run, 1)

FleetSpec == Init /\ [][FleetNext]_vars

\* The definitions repository reachable for no fetch, for the clone only, or
\* for everything, with every other origin reachable.
BaselineNets == {[AllUp EXCEPT ![S_ts_cycle_build] = n] : n \in {0, 1, 3}}

\* Setup and baseline resets while the published definitions change.
BaselineNext ==
    \/ \E net \in NetChoices : Setup(net, "accepts")
    \/ LocalEdit(S_cwfs)
    \/ \E f \in Files : PublishDefinitions(f)
    \/ \E b \in {S_main, S_run}, n \in 0..2 : ShowOriginalVersions(b, n, "accepts")
    \/ \E b \in {S_main, S_run}, net \in BaselineNets :
          Reset(b, EmptyStr, net, "accepts")

BaselineSpec == Init /\ [][BaselineNext]_vars

\* The origin of cwfs reachable or not, with every other origin reachable.
TelemetryNets == {AllUp, [AllUp EXCEPT ![S_cwfs] = 0]}

\* Every action of run with every state of the REST proxy.
TelemetryNext ==
    \/ \E net \in TelemetryNets, proxy \in Proxies : Setup(net, proxy)
    \/ \E v \in {S_100a1, S_temp}, net \in {0, 2}, proxy \in Proxies :
          CheckoutVersion(S_cwfs, v, net, proxy)
    \/ \E b \in {S_main, S_temp}, net \in 0..1, proxy \in Proxies :
          CheckoutBranch(S_cwfs, b, net, proxy)
    \/ \E net \in TelemetryNets, proxy \in Proxies :
          Reset(S_main, EmptyStr, net, proxy)
    \/ \E proxy \in Proxies : ShowOriginalVersions(S_main, 2, proxy)
    \/ PublishTag(S_cwfs, S_vtag, MaxCommit)
    \/ PushBranch(S_cwfs, S_temp, 1)

TelemetrySpec == Init /\ [][TelemetryNext]_vars

\* The longest topic followed.
MaxStream == 2
Events ==
    {Garbage, OtherRecord,
     ActionData("setup", EmptyStr, EmptyStr),
     ActionData("reset", EmptyStr, EmptyStr),
     ActionData("show-current-versions", EmptyStr, EmptyStr),
     ActionData("checkout-branch", S_cwfs, S_main),
     ActionData("checkout-branch", S_ts_cycle_build, S_main),
     ActionData("checkout-version", S_cwfs, S_100a1)}
SidecarNets == {AllUp, [AllUp EXCEPT ![S_cwfs] = 0]}

\* The sidecar following a topic.
SidecarNext ==
    \/ \E proxy \in BOOLEAN : Start(proxy, AllUp)
    \/ \E m \in Events : Publish(m, MaxStream)
    \/ \E net \in SidecarNets : Consume(net)
    \/ PublishTag(S_cwfs, S_vtag, MaxCommit)

SidecarSpec == Init /\ [][SidecarNext]_vars

-----------------------------------------------------------------------------
(* The version codec and the line grammar on their own *)

\* The largest MAJOR, MINOR or PATCH and the largest prerelease number tried.
MaxPart == 10
MaxPre == 2

Parts == {Decimal(1), Decimal(MaxPart)}
Kinds == {EmptyStr, <<"a">>, <<"b">>, <<"r","c">>}
PreNumbers == {EmptyStr} \cup {Decimal(n) : n \in 1..MaxPre}
\* MAJOR.MINOR.PATCH[{a|b|rc}[N]] as a version string
Spell(major, minor, patch, kind, n) ==
    major \o <<".">> \o minor \o <<".">> \o patch \o kind \o n
VersionSpecs ==
    {Spell(major, minor, patch, kind, n) :
        major \in Parts, minor \in Parts, patch \in Parts,
        kind \in Kinds \ {EmptyStr}, n \in PreNumbers}
    \cup {Spell(major, minor, patch, EmptyStr, EmptyStr) :
              major \in Parts, minor \in Parts, patch \in Parts}

\* The strings of tests::expand_version_to_tag and tests::test_is_valid_version,
\* and strings near them.
TestVersions ==
    {<<"1",".","0",".","0">>,
     <<"1",".","0",".","0","a","1">>,
     <<"1",".","0",".","0","b","1">>,
     <<"1",".","0",".","0","r","c","1">>,
     <<"1",".","2",".","3">>,
     <<"1","0",".","2","0","0",".","3","0","0">>,
     <<"1",".","2","0",".","3","a","1">>,
     <<"1",".","2","0",".","3","b","1">>,
     <<"1",".","2","0",".","3","r","c","1">>}
OpaqueRefs ==
    {<<"m","a","i","n">>,
     <<"d","e","v","e","l","o","p">>,
     <<"t","i","c","k","e","t","/","D","M","-","1","2","3","4","5">>,
     <<"w",".","2","0","2","3",".","1","3">>,
     <<>>,
     <<"v","1",".","0",".","0">>,
     <<"t","i","c","k","e","t","s","/","D","M","-","1">>}
NearVersions ==
    {<<".",".">>,
     <<".","1",".","2">>,
     <<"1",".","0">>,
     <<"1",".","0",".","0","x">>,
     <<"1",".","0",".","0","-","d","e","v">>,
     <<"1",".","0",".","0",".","1">>,
     <<"1",".",".","0">>,
     <<"a","1",".","0",".","0">>,
     <<"1",".","0",".","0","a","b","1">>}
\* Lines of a definitions file, tests::test_repo_version_regexp's among them.
TestLines ==
    {<<"t","s","_","u","n","i","t","_","t","e","s","t","=","X",".","Y",".","Z","a","N">>,
     <<"c","w","f","s","=","1",".","0",".","0","a","1">>,
     <<"t","s","_","w","e","p","_","e","x","t","r","a","=","2",".","0">>,
     <<"=">>,
     <<"c","w","f","s","=">>,
     <<"#"," ","c","y","c","l","e">>,
     <<"c","w","f","s"," ","1",".","0">>,
     <<"#"," ","c","w","f","s","=","1",".","0">>,
     <<"c","w","f","s","=","1",".","0","-","r","c">>,
     <<"c","w","f","s","=","1","_","0">>,
     <<"a"," ","b","=","c">>,
     <<"c","w","f","s","=","m","a","i","n","=","1",".","0">>}

\* The two strings a function is applied to.
Given(s, t) == [op |-> "given", arg |-> s, other |-> t]
CodecInit ==
    /\ remote = [r \in Repositories |->
                    [tags |-> NoRefs, branches |-> Put(NoRefs, S_main, 1)]]
    /\ disk = [r \in Repositories |-> NotCloned]
    /\ cycleRemote = [branches |-> Put(NoFiles, S_main, FileOf(CycleEnv))]
    /\ cycleDisk = CycleNotCloned
    /\ host = NoHost
    /\ sidecar = NotStarted
    /\ \/ \E s \in VersionSpecs, t \in VersionSpecs : last = Given(s, t)
       \/ \E s \in TestVersions \cup OpaqueRefs \cup NearVersions \cup TestLines :
             last = Given(s, s)

\* ObservingEnvironment::expand_version_to_tag applied to each string
Expand ==
    /\ last.op = "given"
    /\ last' = [op |-> "expand_version_to_tag", arg |-> last.arg, other |-> last.other,
                result |-> expand_version_to_tag(last.arg),
                other_result |-> expand_version_to_tag(last.other)]
    /\ UNCHANGED <<remote, disk, cycleRemote, cycleDisk, host, sidecar>>

\* expand_version_to_tag applied to the tag it returned
ExpandAgain ==
    /\ last.op = "expand_version_to_tag"
    /\ last' = [op |-> "expand_again", arg |-> last.arg, other |-> last.other,
                tag |-> last.result,
                result |-> expand_version_to_tag(last.result)]
    /\ UNCHANGED <<remote, disk, cycleRemote, cycleDisk, host, sidecar>>

\* Regex::new(VALID_VERSION).is_match
IsMatch ==
    /\ last.op = "given"
    /\ last' = [op |-> "is_match", arg |-> last.arg, other |-> last.other,
                result |-> IsValidVersion(last.arg)]
    /\ UNCHANGED <<remote, disk, cycleRemote, cycleDisk, host, sidecar>>

\* Regex::new(REPO_VERSION_REGEXP).captures
CapturesLine ==
    /\ last.op = "given"
    /\ last' = [op |-> "captures", arg |-> last.arg, other |-> last.other,
                result |-> Captures(last.arg)]
    /\ UNCHANGED <<remote, disk, cycleRemote, cycleDisk, host, sidecar>>

CodecNext == Expand \/ ExpandAgain \/ IsMatch \/ CapturesLine

CodecSpec == CodecInit /\ [][CodecNext]_vars

-----------------------------------------------------------------------------
(* The registry and the repositories that can be selected, by name *)

\* ObservingEnvironment::default: every key of repositories.
DefaultRepositories ==
    {"atmospec", "cwfs", "Spectractor", "summit_extras", "summit_utils",
     "ts_config_mttcs", "ts_config_attcs", "ts_config_ocs", "ts_config_scheduler",
     "ts_auxtel_standardscripts", "ts_maintel_standardscripts", "ts_standardscripts",
     "ts_externalscripts", "ts_observatory_control", "ts_observing_utilities",
     "ts_wep"}

\* enum Repos
Repos ==
    {"TsObservatoryControl", "Atmospec", "Spectractor", "SummitExtras", "SummitUtils",
     "TsExternalscripts", "TsObservingUtilities", "TsStandardscripts",
     "TsAuxtelStandardscripts", "TsMaintelStandardscripts", "TsWep", "TsConfigOCS",
     "TsConfigATTCS", "TsConfigMTTCS", "TsConfigScheduler"}

None == [some |-> FALSE, value |-> "none"]
Some(x) == [some |-> TRUE, value |-> x]

\* Repos::get_name
Repos_get_name(r) ==
    CASE r = "TsObservatoryControl" -> "ts_observatory_control"
      [] r = "Atmospec" -> "atmospec"
      [] r = "Spectractor" -> "Spectractor"
      [] r = "SummitExtras" -> "summit_extras"
      [] r = "SummitUtils" -> "summit_utils"
      [] r = "TsExternalscripts" -> "ts_externalscripts"
      [] r = "TsObservingUtilities" -> "ts_observing_utilities"
      [] r = "TsStandardscripts" -> "ts_standardscripts"
      [] r = "TsAuxtelStandardscripts" -> "ts_auxtel_standardscripts"
      [] r = "TsMaintelStandardscripts" -> "ts_maintel_standardscripts"
      [] r = "TsWep" -> "ts_wep"
      [] r = "TsConfigOCS" -> "ts_config_ocs"
      [] r = "TsConfigATTCS" -> "ts_config_attcs"
      [] r = "TsConfigMTTCS" -> "ts_config_mttcs"
      [] r = "TsConfigScheduler" -> "ts_config_scheduler"

\* Repos::new_from_str
Repos_new_from_str(repository) ==
    CASE repository = "ts_observatory_control" -> Some("TsObservatoryControl")
      [] repository = "atmospec" -> Some("Atmospec")
      [] repository = "Spectractor" -> Some("Spectractor")
      [] repository = "summit_extras" -> Some("SummitExtras")
      [] repository = "summit_utils" -> Some("SummitUtils")
      [] repository = "ts_externalscripts" -> Some("TsExternalscripts")
      [] repository = "ts_observing_utilities" -> Some("TsObservingUtilities")
      [] repository = "ts_standardscripts" -> Some("TsStandardscripts")
      [] repository = "ts_auxtel_standardscripts" -> Some("TsAuxtelStandardscripts")
      [] repository = "ts_maintel_standardscripts" -> Some("TsMaintelStandardscripts")
      [] repository = "ts_wep" -> Some("TsWep")
      [] repository = "ts_config_ocs" -> Some("TsConfigOCS")
      [] repository = "ts_config_attcs" -> Some("TsConfigATTCS")
      [] repository = "ts_config_mttcs" -> Some("TsConfigMTTCS")
      [] repository = "ts_config_scheduler" -> Some("TsConfigScheduler")
      [] OTHER -> None

\* ManageObsEnv::get_repository_name
get_repository_name(repository) ==
    IF repository.some THEN Repos_get_name(repository.value) ELSE ""

\* self.repositories.contains_key(repo_name)
contains_key(repo_name) == repo_name \in DefaultRepositories

\* The names tried: every key of the registry, the name of every variant, and
\* names that are neither.
OtherNames ==
    {"", "ts_cycle_build", "spectractor", "CWFS", "ts_wep_extra", "ts_config",
     "TsWep", "atmospec ", "summit_utils ", "ts_config_mtcs", "main", "cwfs/",
     "Atmospec", "ts_observatory", "ts_standardscripts2", "summit"}
NamesTried ==
    DefaultRepositories \cup {Repos_get_name(r) : r \in Repos} \cup OtherNames

Looked(op, arg, result) == [op |-> op, arg |-> arg, result |-> result]

SelectionInit ==
    /\ remote = [r \in Repositories |->
                    [tags |-> NoRefs, branches |-> Put(NoRefs, S_main, 1)]]
    /\ disk = [r \in Repositories |-> NotCloned]
    /\ cycleRemote = [branches |-> Put(NoFiles, S_main, FileOf(CycleEnv))]
    /\ cycleDisk = CycleNotCloned
    /\ host = NoHost
    /\ sidecar = NotStarted
    /\ last = Looked("init", "", None)

\* Repos::get_name of a variant
GetName(r) ==
    /\ last' = Looked("get_name", r, Some(Repos_get_name(r)))
    /\ UNCHANGED <<remote, disk, cycleRemote, cycleDisk, host, sidecar>>

\* Repos::new_from_str of a name
NewFromStr(repository) ==
    /\ last' = Looked("new_from_str", repository, Repos_new_from_str(repository))
    /\ UNCHANGED <<remote, disk, cycleRemote, cycleDisk, host, sidecar>>

\* Repos::new_from_str(r.get_name())
NameAndBack(r) ==
    /\ last' = Looked("name_and_back", r, Repos_new_from_str(Repos_get_name(r)))
    /\ UNCHANGED <<remote, disk, cycleRemote, cycleDisk, host, sidecar>>

\* get_repository_name of a configuration with a repository or with none
GetRepositoryName(repository) ==
    /\ last' = Looked("get_repository_name", repository,
                      Some(get_repository_name(repository)))
    /\ UNCHANGED <<remote, disk, cycleRemote, cycleDisk, host, sidecar>>

\* checkout_branch looks the name up in the registry
ContainsKey(repo_name) ==
    /\ last' = Looked("contains_key", repo_name,
                      IF contains_key(repo_name) THEN Some(repo_name) ELSE None)
    /\ UNCHANGED <<remote, disk, cycleRemote, cycleDisk, host, sidecar>>

SelectionNext ==
    \/ \E r \in Repos : GetName(r)
    \/ \E s \in NamesTried : NewFromStr(s)
    \/ \E r \in Repos : NameAndBack(r)
    \/ \E o \in {None} \cup {Some(r) : r \in Repos} : GetRepositoryName(o)
    \/ \E s \in NamesTried : ContainsKey(s)

SelectionSpec == SelectionInit /\ [][SelectionNext]_vars

-----------------------------------------------------------------------------
(* The summary of a map of versions, on its own *)

\* Ok(description) and Err(error) of get_current_version
Described(description) == [ok |-> TRUE, version |-> description, err |-> NoError]
NotDescribed(error) == [ok |-> FALSE, version |-> EmptyStr, err |-> error]

\* What get_current_env_versions returns when every repository is on a tag.
AllOnTag == [key \in DefaultRepositories |-> Described(S_vtag)]
Without(map, key) == [k \in (DOMAIN map) \ {key} |-> map[k]]
\* The maps tried: one repository past its tag, on no tag, or not to be
\* opened, and a map with the entry of one repository taken out.
VersionMaps ==
    {AllOnTag}
    \cup {[AllOnTag EXCEPT ![key] = x] :
            key \in DefaultRepositories,
            x \in {Described(S_vtag \o <<"-", "2", "-", "g", "3">>),
                   Described(<<"3">>),
                   NotDescribed(ObsEnvError("GIT", "Failed to open repository",
                                            EmptyStr, EmptyStr, EmptyStr,
                                            "open failed"))}}
    \cup {Without(AllOnTag, key) : key \in DefaultRepositories}

SummaryInit ==
    /\ remote = [r \in Repositories |->
                    [tags |-> NoRefs, branches |-> Put(NoRefs, S_main, 1)]]
    /\ disk = [r \in Repositories |-> NotCloned]
    /\ cycleRemote = [branches |-> Put(NoFiles, S_main, FileOf(CycleEnv))]
    /\ cycleDisk = CycleNotCloned
    /\ host = NoHost
    /\ sidecar = NotStarted
    /\ \E map \in VersionMaps : last = Looked("versions", map, None)

\* Summary::from_btree_map applied to the map
Summarize ==
    /\ last.op = "versions"
    /\ last' = Looked("from_btree_map", last.arg, Summary_from_btree_map(last.arg))
    /\ UNCHANGED <<remote, disk, cycleRemote, cycleDisk, host, sidecar>>

SummaryNext == Summarize

SummarySpec == SummaryInit /\ [][SummaryNext]_vars

-----------------------------------------------------------------------------
(* The directories under the destination, as Repository::open finds them:   *)
(* the working copies of the registry and, once the baseline loader has      *)
(* cloned it, the definitions repository at destination/ts_cycle_build.      *)

\* The commits of the definitions repository: one for each content of
\* cycle/cycle.env that is published.
FileCommits ==
    <<FileOf(CycleEnv), FileOf(MovedEnv), FileOf(PrefixEnv), FileOf(BareEnv),
      FileOf(TwiceEnv), NoFile>>
CommitOfFile(file) == CHOOSE i \in DOMAIN FileCommits : FileCommits[i] = file
FileOfCommit(commit) == FileCommits[commit]

\* The definitions repository as the backend sees it: cloned on main, the
\* branch update_base_env_source resets hard (the branch HEAD is on is not
\* kept in cycleDisk; it is taken as main, where the clone leaves it).
DefinitionsCopy(cdsk) ==
    IF ~cdsk.present THEN NotCloned
    ELSE [present |-> TRUE, tags |-> NoRefs,
          rtrack |-> [b \in DOMAIN cdsk.rtrack |-> CommitOfFile(cdsk.rtrack[b])],
          heads |-> Put(NoRefs, S_main, CommitOfFile(cdsk.file)),
          head |-> OnBranch(S_main), wt |-> CommitOfFile(cdsk.file),
          dirty |-> FALSE]

\* The origin of the definitions repository as the backend sees it.
DefinitionsOrigin(crem) ==
    [tags |-> NoRefs,
     branches |-> [b \in DOMAIN crem.branches |-> CommitOfFile(crem.branches[b])]]

\* The definitions repository after the backend has worked on it.
DefinitionsAfter(cdsk, w) ==
    IF ~w.present THEN cdsk
    ELSE [present |-> TRUE,
          rtrack |-> [b \in DOMAIN w.rtrack |-> FileOfCommit(w.rtrack[b])],
          file |-> FileOfCommit(w.wt)]

\* Path::new(destination).join(repo), for every name.
Directories(dsk, cdsk) ==
    [d \in (DOMAIN dsk) \cup {S_ts_cycle_build} |->
        IF d = S_ts_cycle_build THEN DefinitionsCopy(cdsk) ELSE dsk[d]]
OriginsOf(rem, crem) ==
    [d \in (DOMAIN rem) \cup {S_ts_cycle_build} |->
        IF d = S_ts_cycle_build THEN DefinitionsOrigin(crem) ELSE rem[d]]

\* A caller of the library: ObservingEnvironment::reset_index_to_version(repo,
\* version), with any name.
ResetIndexToVersion(repo, version, net) ==
    LET o == reset_index_to_version(Directories(disk, cycleDisk),
                                    RemoteOf(OriginsOf(remote, cycleRemote), repo),
                                    net, repo, version)
    IN /\ disk' = Store(disk, repo, o.w)
       /\ cycleDisk' = IF repo = S_ts_cycle_build
                       THEN DefinitionsAfter(cycleDisk, o.w)
                       ELSE cycleDisk
       /\ last' = Record("reset_index_to_version", repo, version, OneNet(repo, net),
                         o.ok, Errs(o),
                         Tagged(repo, "reset_index_to_version", version, o.trace),
                         NoRefs, <<>>)
       /\ UNCHANGED <<remote, cycleRemote, host, sidecar>>

\* A caller of the library: ObservingEnvironment::checkout_branch(repo_name,
\* branch_name), with any name.
EnvCheckoutBranch(repo_name, branch_name, net) ==
    LET o == env_checkout_branch(Directories(disk, cycleDisk),
                                 RemoteOf(OriginsOf(remote, cycleRemote), repo_name),
                                 net, repo_name, branch_name)
    IN /\ disk' = Store(disk, repo_name, o.w)
       /\ cycleDisk' = IF repo_name = S_ts_cycle_build
                       THEN DefinitionsAfter(cycleDisk, o.w)
                       ELSE cycleDisk
       /\ last' = Record("checkout_branch", repo_name, branch_name,
                         OneNet(repo_name, net), o.ok, Errs(o),
                         Tagged(repo_name, "checkout_branch", branch_name, o.trace),
                         NoRefs, <<>>)
       /\ UNCHANGED <<remote, cycleRemote, host, sidecar>>

\* A directory under the destination that is no repository at all.
S_scratch == <<"s","c","r","a","t","c","h">>

\* The names the library is called with: a managed one, the definitions
\* repository and a directory that is no repository.
Named == {S_cwfs, S_ts_cycle_build, S_scratch}

\* The library called with any name while the definitions are published and
\* loaded.
DirectoryNext ==
    \/ Setup(AllUp, "accepts")
    \/ \E b \in {S_main, S_run} : ShowOriginalVersions(b, 2, "accepts")
    \/ \E f \in {FileOf(CycleEnv), FileOf(MovedEnv), NoFile} : PublishDefinitions(f)
    \/ PushBranch(S_cwfs, S_100a1, MaxCommit)
    \/ \E r \in Named, v \in {S_main, S_100a1}, net \in {0, 2} :
          ResetIndexToVersion(r, v, net)
    \/ \E r \in Named, net \in {0, 1} : EnvCheckoutBranch(r, S_main, net)

DirectorySpec == Init /\ [][DirectoryNext]_vars

-----------------------------------------------------------------------------
(* What the recorded calls of the last action say *)

HasCall(trace, call) == \E i \in 1..Len(trace) : trace[i].call = call
CountCalls(trace, call) == Cardinality({i \in 1..Len(trace) : trace[i].call = call})
HasRepoCall(trace, repo, call) ==
    \E i \in 1..Len(trace) : trace[i].repo = repo /\ trace[i].call = call

\* The calls only checkout_branch makes.
BranchCalls == {"fetch", "find_branch", "set_head"}
BranchAttempted(trace) == \E i \in 1..Len(trace) : trace[i].call \in BranchCalls

IsCheckoutVersion == last.op = "checkout-version"
\* The working copy the last single-repository action worked on.
LastCopy == disk[last.repo]
LastTag == expand_version_to_tag(last.arg)

\* The last checkout-version looked refs/tags/<TagName> up and it resolved.
TagResolved ==
    /\ IsCheckoutVersion
    /\ HasCall(last.trace, "revparse_tag")
    /\ LastTag \in DOMAIN LastCopy.tags
\* It looked the tag up and the tag did not resolve.
TagMissed ==
    /\ IsCheckoutVersion
    /\ HasCall(last.trace, "revparse_tag")
    /\ LastTag \notin DOMAIN LastCopy.tags

\* Every tag lookup comes before every call of the branch procedure.
TagLookupFirst(trace) ==
    \A i, j \in 1..Len(trace) :
        (trace[i].call = "revparse_tag" /\ trace[j].call \in BranchCalls) => i < j

\* The working copy is on the commit: HEAD and the working tree.
OnCommit(w, commit) == HeadCommit(w) = commit /\ w.wt = commit /\ ~w.dirty

-----------------------------------------------------------------------------
(* Claims on the checkout of one repository (specification Spec) *)

\* C1: in reset_index_to_version the tag lookup comes before any branch
\* lookup, and whenever refs/tags/<TagName> resolves the repository ends on
\* the tag's commit, also when the origin has a branch named like the target.
C1_TagWins ==
    IsCheckoutVersion =>
        /\ TagLookupFirst(last.trace)
        /\ BranchAttempted(last.trace) => HasCall(last.trace, "revparse_tag")
        /\ TagResolved => OnCommit(LastCopy, LastCopy.tags[LastTag])

\* C2: the branch fallback is entered only when the tag does not resolve: once
\* the tag resolved no call of the branch procedure is made, and the call
\* succeeds exactly when the tag checkout ran to its last step (the hard
\* reset); a tag checkout that fails at an earlier step ends the call as failed.
C2_FallbackOnlyOnMiss ==
    /\ TagResolved =>
          /\ ~BranchAttempted(last.trace)
          /\ last.ok <=> last.trace[Len(last.trace)].call = "reset"
    /\ (IsCheckoutVersion /\ BranchAttempted(last.trace)) => TagMissed

\* C2 witness: the tag resolved and the tag checkout failed (the marker could
\* not be moved), and the call failed.
C2_Witness ==
    /\ TagResolved
    /\ ~last.ok
    /\ last.errs[1].cause = "cannot force update current HEAD"

\* C3: when the tag lookup fails, the branch that is fetched, looked up and
\* checked out is named by the target string as passed in, never by the
\* encoded tag name.
C3_FallbackUsesTarget ==
    TagMissed =>
        /\ \E i \in 1..Len(last.trace) :
              last.trace[i].call = "fetch" /\ last.trace[i].arg = last.arg
        /\ \A i \in 1..Len(last.trace) :
              last.trace[i].call \in {"fetch", "find_branch"}
                  => last.trace[i].arg = last.arg
        /\ last.ok => LastCopy.head = OnBranch(last.arg)

\* C3 witness: target 1.0.0a1, whose tag name differs from it, ended on the
\* branch 1.0.0a1.
C3_Witness ==
    /\ TagMissed
    /\ last.arg = S_100a1
    /\ LastTag # last.arg
    /\ last.ok
    /\ LastCopy.head = OnBranch(S_100a1)

\* C4: if the initial fetch of reset_index_to_version fails, the call fails
\* without a tag lookup or a branch attempt, and head, local branches and
\* working tree of the repository (its whole working copy) stay as they were.
C4_FetchFailureChangesNothing ==
    [][(last'.op = "checkout-version" /\ disk[last'.repo].present
            /\ last'.net[last'.repo] = 0)
        => /\ ~last'.ok
           /\ ~HasCall(last'.trace, "revparse_tag")
           /\ ~BranchAttempted(last'.trace)
           /\ disk' = disk]_vars

\* C4 witness: the fetch failed on a working copy that has local
\* modifications and already holds the tag asked for.
C4_Witness ==
    /\ IsCheckoutVersion
    /\ LastCopy.present /\ LastCopy.dirty
    /\ last.net[last.repo] = 0
    /\ ~last.ok
    /\ LastTag \in DOMAIN LastCopy.tags

TagSucceeded == IsCheckoutVersion /\ last.ok /\ HasCall(last.trace, "set_head_tag")
BranchSucceeded == IsCheckoutVersion /\ last.ok /\ BranchAttempted(last.trace)
Failed == IsCheckoutVersion /\ ~last.ok

\* One tag attempt and one branch attempt at most, no step made twice, and
\* exactly one of the three outcomes.
OneAttemptEach ==
    /\ CountCalls(last.trace, "fetch_tags") <= 1
    /\ CountCalls(last.trace, "revparse_tag") <= 1
    /\ CountCalls(last.trace, "set_head_tag") <= 1
    /\ CountCalls(last.trace, "fetch") <= 1
    /\ CountCalls(last.trace, "find_branch") <= 1
    /\ CountCalls(last.trace, "reset") <= 1
    /\ Cardinality({o \in {"tag", "branch", "failed"} :
                       \/ o = "tag" /\ TagSucceeded
                       \/ o = "branch" /\ BranchSucceeded
                       \/ o = "failed" /\ Failed}) = 1

\* C5 as stated: every reset_index_to_version call ends in exactly one of
\* TagSucceeded, BranchSucceeded, Failed after at most one tag and one branch
\* attempt, nothing is retried, and the failure returned carries the
\* repository name and the attempted version.
C5_Original ==
    IsCheckoutVersion =>
        /\ OneAttemptEach
        /\ ~last.ok => /\ Len(last.errs) = 1
                       /\ last.errs[1].repo = last.repo
                       /\ last.errs[1].version = last.arg

\* C5 amended: as above, but the failure carries the attempted version (and
\* tag name) only when the repository could be opened; a failure to open it
\* carries the repository name alone.
C5_Amended ==
    IsCheckoutVersion =>
        /\ OneAttemptEach
        /\ ~last.ok => /\ Len(last.errs) = 1
                       /\ last.errs[1].repo = last.repo
                       /\ LastCopy.present =>
                             /\ last.errs[1].version = last.arg
                             /\ last.errs[1].tag = LastTag
                       /\ ~LastCopy.present =>
                             /\ last.errs[1].version = EmptyStr
                             /\ last.trace = Tagged(last.repo, "reset_index_to_version",
                                                    last.arg, <<>>)

\* C5 witness: a call that failed in the branch attempt, after the tag
\* attempt, and reports repository and version.
C5_Witness ==
    /\ Failed
    /\ TagMissed
    /\ BranchAttempted(last.trace)
    /\ last.errs[1].version = last.arg
    /\ last.errs[1].repo = last.repo

\* C6: when reset_index_to_version succeeds through the tag path, HEAD is at
\* the commit of refs/tags/<TagName>, the local marker named after the target
\* is at that commit, and the working tree is that commit without local
\* modifications.
C6_TagCheckoutResult ==
    TagSucceeded =>
        /\ LastTag \in DOMAIN LastCopy.tags
        /\ LastCopy.tags[LastTag] = remote[last.repo].tags[LastTag]
        /\ LastCopy.head = Detached(LastCopy.tags[LastTag])
        /\ last.arg \in DOMAIN LastCopy.heads
        /\ LastCopy.heads[last.arg] = LastCopy.tags[LastTag]
        /\ LastCopy.wt = LastCopy.tags[LastTag]
        /\ ~LastCopy.dirty

\* C6 witness: a successful tag checkout that moved the marker away from the
\* commit the branch of the same name has at the origin.
C6_Witness ==
    /\ TagSucceeded
    /\ last.arg \in DOMAIN remote[last.repo].branches
    /\ remote[last.repo].branches[last.arg] # LastCopy.tags[LastTag]
    /\ LastCopy.heads[last.arg] = LastCopy.tags[LastTag]

\* The branch procedure ran to success in the last action, for branch last.arg.
BranchProcedureSucceeded ==
    /\ last.op \in {"checkout-branch", "checkout-version"}
    /\ last.ok
    /\ HasCall(last.trace, "find_branch")

\* C7: when checkout_branch succeeds for branch B, the local branch B is at
\* the commit of origin/B as fetched in that call, HEAD is the local branch B
\* and not the scratch branch, and the working tree is that commit.
C7_BranchCheckoutResult ==
    BranchProcedureSucceeded =>
        /\ last.arg \in DOMAIN LastCopy.rtrack
        /\ last.arg \in DOMAIN LastCopy.heads
        /\ last.arg \in DOMAIN remote[last.repo].branches
              => LastCopy.rtrack[last.arg] = remote[last.repo].branches[last.arg]
        /\ LastCopy.heads[last.arg] = LastCopy.rtrack[last.arg]
        /\ LastCopy.head = OnBranch(last.arg)
        /\ LastCopy.wt = LastCopy.rtrack[last.arg]
        /\ ~LastCopy.dirty

\* C7 witness: checkout_branch succeeded on a branch other than the scratch
\* branch whose origin had moved since the local branch was made.
C7_Witness ==
    /\ BranchProcedureSucceeded
    /\ last.op = "checkout-branch"
    /\ last.arg = S_100a1
    /\ LastCopy.heads[S_100a1] = MaxCommit
    /\ S_temp \in DOMAIN LastCopy.heads

-----------------------------------------------------------------------------
(* Baseline reset: what each repository of the map is expected to get *)

IsReset(l) == l.op = "reset"
BaselineKeys(l) == DOMAIN l.versions
ErrorRepos(l) == {l.errs[i].repo : i \in 1..Len(l.errs)}

\* One repository taken alone: the override checkout, then the reset to the
\* baseline version when there is no override or the override failed.
Override1(dsk, rem, net, rb, r) ==
    env_checkout_branch(dsk, RemoteOf(rem, r), NetOf(net, r), r, rb)
Baseline1(dsk, rem, net, r, version) ==
    reset_index_to_version(dsk, RemoteOf(rem, r), NetOf(net, r), r, version)
ResolveBaseline(o2) == [how |-> IF o2.ok THEN "baseline" ELSE "failed", w |-> o2.w]
ResolveAfter(o1, dsk, rem, net, rb, r, version) ==
    IF Len(rb) > 0 /\ o1.ok
    THEN [how |-> "override", w |-> o1.w]
    ELSE ResolveBaseline(
             Baseline1(IF Len(rb) > 0 THEN Store(dsk, r, o1.w) ELSE dsk,
                       rem, net, r, version))
Resolution(dsk, rem, net, rb, r, version) ==
    ResolveAfter(Override1(dsk, rem, net, rb, r), dsk, rem, net, rb, r, version)

\* The working copy is on the tip of the branch as last fetched.
OnBranchTip(w, branch) ==
    /\ w.present
    /\ w.head = OnBranch(branch)
    /\ branch \in DOMAIN w.rtrack
    /\ OnCommit(w, w.rtrack[branch])
\* The working copy is on the baseline version: detached on the commit of the
\* version's tag, or on the tip of the branch named after the version when no
\* such tag is known.
OnBaselineVersion(w, version) ==
    /\ w.present
    /\ IF expand_version_to_tag(version) \in DOMAIN w.tags
       THEN /\ w.head = Detached(w.tags[expand_version_to_tag(version)])
            /\ OnCommit(w, w.tags[expand_version_to_tag(version)])
       ELSE OnBranchTip(w, version)
OnResolved(w, how, rb, version) ==
    IF how = "override" THEN OnBranchTip(w, rb) ELSE OnBaselineVersion(w, version)

ResetCalledWith(l, r) ==
    \E i \in 1..Len(l.trace) :
        /\ l.trace[i].repo = r
        /\ l.trace[i].call = "reset_index_to_version"
        /\ l.trace[i].arg = l.versions[r]

\* The repositories of the map whose revision the reset that produced l could
\* not resolve, from the state the reset started in.
FailingRepos(l, dsk, rem) ==
    {r \in BaselineKeys(l) :
        Resolution(dsk, rem, l.net, l.arg, r, l.versions[r]).how = "failed"}

ExactlyTheFailing(l, failing) ==
    Cardinality(failing) < Cardinality(BaselineKeys(l)) =>
        /\ Len(l.errs) = Cardinality(failing)
        /\ ErrorRepos(l) = failing
        /\ \A i, j \in 1..Len(l.errs) : l.errs[i].repo = l.errs[j].repo => i = j

\* C8: a baseline reset over N repositories of which M < N fail to resolve
\* their revision returns exactly M errors, one for each failing repository
\* and no two for the same repository.
C8_ErrorsAreTheFailures ==
    [][IsReset(last') => ExactlyTheFailing(last', FailingRepos(last', disk, remote))]_vars

\* A reset over three repositories returned two errors, for two repositories.
C8_Witness ==
    /\ IsReset(last)
    /\ Cardinality(BaselineKeys(last)) = 3
    /\ Len(last.errs) = 2
    /\ Cardinality(ErrorRepos(last)) = 2

Attempted(l, r) ==
    IF Len(l.arg) > 0
    THEN HasRepoCall(l.trace, r, "checkout_branch")
    ELSE ResetCalledWith(l, r)

ResolvedAsExpected(l, r, res, dsk2) ==
    /\ Attempted(l, r)
    /\ res.how # "override" => ResetCalledWith(l, r)
    /\ res.how # "failed" =>
          /\ Open(dsk2, r) = res.w
          /\ OnResolved(Open(dsk2, r), res.how, l.arg, l.versions[r])
          /\ r \notin ErrorRepos(l)

\* C9: a baseline reset attempts every repository of the map whatever
\* happened to the repositories before it, and every repository whose
\* revision resolves ends checked out at that revision.
C9_NoEarlyAbort ==
    [][IsReset(last') =>
         \A r \in BaselineKeys(last') :
             ResolvedAsExpected(last', r,
                 Resolution(disk, remote, last'.net, last'.arg, r, last'.versions[r]),
                 disk')]_vars

\* The first repository of the map failed and a later one was still reset and
\* is on the commit of its version's tag.
C9_Witness ==
    /\ IsReset(last)
    /\ S_atmospec \in ErrorRepos(last)
    /\ S_cwfs \notin ErrorRepos(last)
    /\ ResetCalledWith(last, S_cwfs)
    /\ disk[S_cwfs].head = Detached(MaxCommit)
    /\ OnCommit(disk[S_cwfs], MaxCommit)

NoOverride(l) ==
    /\ ~HasCall(l.trace, "checkout_branch")
    /\ \A r \in BaselineKeys(l) : ResetCalledWith(l, r)

OverrideKept(l, r, dsk2) ==
    /\ OnBranchTip(Open(dsk2, r), l.arg)
    /\ ~HasRepoCall(l.trace, r, "reset_index_to_version")

\* C10 as stated: with an override branch, a repository whose override
\* checkout succeeds ends on the override branch and is not reset to its
\* baseline version, one whose override checkout fails ends on its baseline
\* version; without an override branch no branch checkout is attempted and
\* every entry goes to reset_index_to_version.
OverrideAsStated(l, r, o1, dsk2) ==
    IF o1.ok THEN OverrideKept(l, r, dsk2)
    ELSE OnBaselineVersion(Open(dsk2, r), l.versions[r])
OverrideAmended(l, r, o1, res, dsk2) ==
    IF o1.ok THEN OverrideKept(l, r, dsk2)
    ELSE /\ ResetCalledWith(l, r)
         /\ IF res.how = "baseline"
            THEN OnBaselineVersion(Open(dsk2, r), l.versions[r])
            ELSE r \in ErrorRepos(l)
-----------------------------------------------------------------------------
(* Baseline reset: the outcomes returned *)

\* Where in the log the repository was first handed to a method.
FirstAttempt(l, r) ==
    CHOOSE i \in 1..Len(l.trace) :
        /\ l.trace[i].repo = r
        /\ \A j \in 1..(i - 1) : l.trace[j].repo # r

OutcomeForEach(l, failing, dsk2) ==
    /\ \A r \in BaselineKeys(l) : \E i \in 1..Len(l.trace) : l.trace[i].repo = r
    /\ ErrorRepos(l) = failing
    /\ Len(l.errs) = Cardinality(failing)
    /\ \A r \in BaselineKeys(l) \ failing :
          \/ OnBranchTip(Open(dsk2, r), l.arg)
          \/ OnBaselineVersion(Open(dsk2, r), l.versions[r])
    /\ \A i, j \in 1..Len(l.errs) :
          i < j => /\ FirstAttempt(l, l.errs[i].repo) < FirstAttempt(l, l.errs[j].repo)
                   /\ StrLess(l.errs[i].repo, l.errs[j].repo)

\* C11: every repository a baseline reset attempted has its outcome
\* returned: a failed one has exactly one entry among the errors returned, one
\* without an entry is checked out, and the entries are in the order the
\* repositories were attempted, which is the order of the registry.
C11_OutcomesInOrder ==
    [][(IsReset(last') /\ BaselineKeys(last') # {}) =>
          OutcomeForEach(last', FailingRepos(last', disk, remote), disk')]_vars

\* The first repository of the map succeeded and the two after it failed, and
\* their errors came back in that order.
C11_Witness ==
    /\ IsReset(last)
    /\ Len(last.errs) = 2
    /\ last.errs[1].repo = S_cwfs
    /\ last.errs[2].repo = S_ts_wep
    /\ OnBranchTip(disk[S_atmospec], S_main)

-----------------------------------------------------------------------------
(* The baseline definitions *)

\* The branch of the definitions repository the call was made for.
BaseBranch(l) == l.trace[1].arg
IsCycleEntry(e) == e.repo = S_ts_cycle_build
\* The only error returned is that of get_base_env_versions.
BaselineFailed(l) ==
    /\ Len(l.errs) = 1
    /\ l.errs[1].msg \in {"update_base_env_source", "load_base_env_def_file"}

\* The definitions cannot be had: the origin cannot be fetched from (n fetches
\* go through, and a first use needs one more for the clone), the branch does
\* not exist, or the branch has no cycle/cycle.env.
Unavailable(cdsk, crem, n, b) ==
    IF n = 0 \/ (~cdsk.present /\ n < 2) THEN TRUE
    ELSE IF b \notin DOMAIN crem.branches THEN TRUE
    ELSE ~crem.branches[b].exists

OneErrorNothingTouched(l, dsk, dsk2) ==
    /\ ~l.ok
    /\ Len(l.errs) = 1
    /\ l.errs[1].kind = "ERROR"
    /\ dsk2 = dsk
    /\ \A i \in 1..Len(l.trace) : IsCycleEntry(l.trace[i])

CycleFirst(trace) ==
    \A i, j \in 1..Len(trace) :
        (IsCycleEntry(trace[i]) /\ ~IsCycleEntry(trace[j])) => i < j

AppliedAreThoseRead(l, published, cdsk2) ==
    /\ HasRepoCall(l.trace, S_ts_cycle_build, "fetch")
    /\ HasRepoCall(l.trace, S_ts_cycle_build, "reset")
    /\ HasRepoCall(l.trace, S_ts_cycle_build, "open_file")
    /\ cdsk2.file = published
    /\ l.versions = CollectVersions(published.lines, RegistryKeys, NoRefs)
    /\ \A i \in 1..Len(l.trace) :
          l.trace[i].call = "reset_index_to_version" =>
              /\ l.trace[i].repo \in DOMAIN l.versions
              /\ l.trace[i].arg = l.versions[l.trace[i].repo]

\* C13: every reset_base_environment call fetches the definitions repository,
\* resets it and reads the file again before it touches a managed repository,
\* and the versions it applies are the ones published when it runs, not those
\* an earlier call read.
C13_BaselineRebuilt ==
    [][IsReset(last') =>
          /\ CycleFirst(last'.trace)
          /\ ~BaselineFailed(last') =>
                /\ BaseBranch(last') \in DOMAIN cycleRemote.branches
                /\ AppliedAreThoseRead(last', cycleRemote.branches[BaseBranch(last')],
                                       cycleDisk')]_vars

\* A reset applied the definitions published after an earlier reset had
\* applied the first ones: atmospec was put on main by the first definitions
\* (the later ones do not name it), cwfs by the later ones.
C13_Witness ==
    /\ IsReset(last)
    /\ ~BaselineFailed(last)
    /\ cycleDisk.file = FileOf(MovedEnv)
    /\ DOMAIN last.versions = {S_cwfs, S_ts_wep}
    /\ S_temp \in DOMAIN disk[S_atmospec].heads
    /\ ResetCalledWith(last, S_cwfs)
    /\ OnBranchTip(disk[S_cwfs], S_main)

\* The lines that start with the name followed by '='.
ClaimedLines(lines, n) ==
    {i \in 1..Len(lines) : StartsWith(lines[i], n \o <<"=">>)}
FirstOf(S) == CHOOSE i \in S : \A j \in S : i <= j
\* What such a line gives as the version: the characters after the '=' that
\* a version can hold.
VersionOf(line, n) ==
    SubSeq(line, Len(n) + 2, SkipChars(line, Len(n) + 2, VersionChars) - 1)

FirstMatchingLine(lines, versions) ==
    \A n \in Repositories :
        IF ClaimedLines(lines, n) = {}
        THEN n \notin DOMAIN versions
        ELSE /\ n \in DOMAIN versions
             /\ versions[n] = VersionOf(lines[FirstOf(ClaimedLines(lines, n))], n)

\* C14: for every managed repository name n the map of get_base_env_versions
\* has the version of the first line of the definitions file that starts with
\* n followed by '=', and no entry for n when the file has no such line.
C14_FirstMatchingLine ==
    (last.op = "show-original-versions" /\ last.ok) =>
        FirstMatchingLine(cycleDisk.file.lines, last.versions)

\* What each clone attempted returned and left behind.
CloneOutcome(c, dsk, dsk2, rem, net) ==
    /\ c.ok <=> net[c.repo] > 0
    /\ dsk2[c.repo] = IF c.ok THEN Cloned(rem[c.repo]) ELSE dsk[c.repo]

ClonedTheMissing(l, dsk, dsk2, rem) ==
    /\ {l.clones[i].repo : i \in 1..Len(l.clones)} =
           {r \in Repositories : ~dsk[r].present}
    /\ Len(l.clones) = Cardinality({r \in Repositories : ~dsk[r].present})
    /\ \A i, j \in 1..Len(l.clones) :
          i < j => StrLess(l.clones[i].repo, l.clones[j].repo)
    /\ \A r \in Repositories : dsk[r].present => dsk2[r] = dsk[r]
    /\ \A i \in 1..Len(l.clones) : CloneOutcome(l.clones[i], dsk, dsk2, rem, l.net)

\* C16: clone_repositories attempts a clone for exactly the managed
\* repositories whose path does not exist and returns one result for each, in
\* registry order; a repository already there is left as it is, and a clone
\* that fails does not keep the later ones from being cloned.
C16_CloneMissing ==
    [][last'.op = "setup" => ClonedTheMissing(last', disk, disk', remote)]_vars

\* A setup in which the first clone failed and the two after it were made.
C16_Witness ==
    /\ last.op = "setup"
    /\ Len(last.clones) = 3
    /\ ~last.clones[1].ok
    /\ last.clones[2].ok /\ last.clones[3].ok
    /\ ~disk[last.clones[1].repo].present
    /\ disk[last.clones[2].repo].present
    /\ disk[last.clones[3].repo].present

-----------------------------------------------------------------------------
(* checkout-branch by name *)

NotManagedError(l) ==
    /\ ~l.ok
    /\ Len(l.errs) = 1
    /\ l.errs[1].kind = "ERROR"
    /\ l.errs[1].msg = "not in the list of managed repositories"
    /\ l.errs[1].repo = l.repo
\* The method made no call of the git backend.
NoBackendCall(l) == Len(l.trace) = 1 /\ l.trace[1].call = "checkout_branch"
\* The branch procedure was entered: it starts with the fetch of the branch.
BranchProcedureRun(l) ==
    /\ Len(l.trace) >= 2
    /\ l.trace[2].call = "fetch"
    /\ l.trace[2].arg = l.arg
    /\ l.ok \/ l.errs[1].msg = "Failed to checkout branch"

CheckedThenRun(l, dsk, dsk2) ==
    IF l.repo \notin Repositories
    THEN NotManagedError(l) /\ NoBackendCall(l) /\ dsk2 = dsk
    ELSE IF ~dsk[l.repo].present
    THEN /\ ~l.ok /\ l.errs[1].msg = "Failed to open repository"
         /\ NoBackendCall(l) /\ dsk2 = dsk
    ELSE BranchProcedureRun(l)

\* C15: checkout_branch with a name that is no key of the registry fails with
\* the not-managed error and no repository has been opened, fetched or
\* changed; with a managed name it opens the local repository and runs the
\* branch procedure.
C15_ManagedOnly ==
    [][last'.op = "checkout-branch" => CheckedThenRun(last', disk, disk')]_vars

\* checkout-branch was refused for a name outside the registry while the
\* managed repositories were cloned.
C15_Witness ==
    /\ last.op = "checkout-branch"
    /\ last.repo \in Unmanaged
    /\ NotManagedError(last)
    /\ \A r \in Repositories : disk[r].present

-----------------------------------------------------------------------------
(* The sidecar and its topic *)

\* The oldest message of the topic not yet received.
Oldest(s) == s.stream[s.pos + 1]
\* The loop takes the next message in this step.
Receives == sidecar.pc = "running" /\ sidecar'.pos = sidecar.pos + 1
\* The payload cannot be decoded, or what is decoded is no ActionData.
Malformed(m) == ~decode(m).ok \/ ~from_value(decode(m).value).ok
LoggedFor(s, p) == \E i \in 1..Len(s.logged) : s.logged[i].pos = p
NewLogLine(s, s2, p) ==
    /\ Len(s2.logged) = Len(s.logged) + 1
    /\ s2.logged[Len(s2.logged)].pos = p
    /\ SubSeq(s2.logged, 1, Len(s.logged)) = s.logged

\* C17: a message whose payload cannot be decoded or cannot be turned into an
\* ActionData is logged and the loop goes on to the next message: run does
\* not return because of it.
C17_MalformedSkipped ==
    [][(Receives /\ Malformed(Oldest(sidecar)))
        => (sidecar'.pc = "running" /\ NewLogLine(sidecar, sidecar', sidecar'.pos))]_vars

AppliedAt(s, p) == {i \in 1..Len(s.applied) : s.applied[i].pos = p}
\* The operation issued for the message taken in this step failed, or the
\* message named no action the sidecar issues.
OperationFailed(s, s2) ==
    \/ /\ Len(s2.applied) = Len(s.applied) + 1
       /\ ~s2.applied[Len(s2.applied)].ok
    \/ /\ ~Malformed(Oldest(s))
       /\ ~ActionData_get_action(Oldest(s)).ok

\* C18: when the operation issued for a message fails (a repository that is
\* not managed, a failed checkout, a failed reset, an action that is not one
\* of the sidecar's), the failure is logged, the loop goes on with the next
\* message, and no message is applied twice.
C18_FailureLoggedOnce ==
    [][/\ (Receives /\ OperationFailed(sidecar, sidecar'))
           => /\ sidecar'.pc = "running"
              /\ NewLogLine(sidecar, sidecar', sidecar'.pos)
       /\ \A p \in 1..Len(sidecar'.stream) :
             Cardinality(AppliedAt(sidecar', p)) <= 1]_vars

\* Two operations failed one after the other, one for a repository that is
\* not managed and one for a managed one, each was logged, and the loop is
\* still running.
C18_Witness ==
    /\ sidecar.pc = "running"
    /\ Len(sidecar.applied) >= 2
    /\ \A i \in 1..Len(sidecar.applied) :
          ~sidecar.applied[i].ok /\ LoggedFor(sidecar, sidecar.applied[i].pos)
    /\ \E i \in 1..Len(sidecar.applied) :
          sidecar.applied[i].repository \notin Repositories \cup {EmptyStr}
    /\ \E i \in 1..Len(sidecar.applied) :
          sidecar.applied[i].repository \in Repositories

\* C19: started with SASQUATCH_REST_PROXY_URL set, the sidecar returns an
\* error before it creates the destination, clones a repository, writes the
\* setup file or subscribes; it takes no message in that configuration.
C19_RefusesToStart ==
    [][/\ sidecar'.proxy => sidecar'.pc = "refused"
       /\ (sidecar'.pc = "refused" /\ sidecar.pc # "refused")
             => /\ host' = host /\ disk' = disk /\ cycleDisk' = cycleDisk
                /\ last' = last
                /\ sidecar'.pos = sidecar.pos
       /\ sidecar.pc = "refused"
             => /\ sidecar'.applied = sidecar.applied
                /\ sidecar'.logged = sidecar.logged
                /\ (sidecar'.pc = "refused" => sidecar'.pos = sidecar.pos)]_vars

\* The sidecar was refused on a host where nothing exists, with messages
\* waiting on the topic.
C19_Witness ==
    /\ sidecar.pc = "refused"
    /\ sidecar.proxy
    /\ Len(sidecar.stream) > 0
    /\ sidecar.pos = 0
    /\ host = NoHost
    /\ \A r \in Repositories : ~disk[r].present

\* The entry of the applied operations a message stands for.
EntryOf(m, p, e) ==
    /\ e.pos = p
    /\ e.action = m.action
    /\ e.repository = m.repository
    /\ e.branch_name = m.branch_name
InStreamOrder(s) ==
    /\ \A i, j \in 1..Len(s.applied) : i < j => s.applied[i].pos < s.applied[j].pos
    /\ \A i \in 1..Len(s.applied) :
          /\ s.applied[i].pos \in 1..Len(s.stream)
          /\ EntryOf(s.stream[s.applied[i].pos], s.applied[i].pos, s.applied[i])
\* The operation of the message at the next position, and no other, is the
\* one that was run in this step.
NextApplied(s, s2, l2) ==
    IF Malformed(Oldest(s)) \/ ~ActionData_get_action(Oldest(s)).ok
    THEN s2.applied = s.applied
    ELSE /\ Len(s2.applied) = Len(s.applied) + 1
         /\ SubSeq(s2.applied, 1, Len(s.applied)) = s.applied
         /\ EntryOf(Oldest(s), s.pos + 1, s2.applied[Len(s2.applied)])
         /\ l2.op = Oldest(s).action
         /\ Oldest(s).action \in {"checkout-branch", "checkout-version"}
               => (l2.repo = Oldest(s).repository /\ l2.arg = Oldest(s).branch_name)

\* C20: the sidecar applies the messages in the order it receives them and
\* one at a time: each turn of the loop runs the operation of the next
\* message of the topic, to its end, and the applied operations are in the
\* order of the topic.
C20_InOrderOneAtATime ==
    [][/\ InStreamOrder(sidecar')
       /\ IF Receives THEN NextApplied(sidecar, sidecar', last')
          ELSE sidecar'.applied = sidecar.applied]_vars

\* Two messages were waiting and both were applied, the earlier one first.
C20_Witness ==
    /\ Len(sidecar.applied) = 2
    /\ sidecar.applied[1].pos = 1 /\ sidecar.applied[2].pos = 2
    /\ sidecar.applied[1].action = "checkout-version"
    /\ sidecar.applied[2].action = "checkout-branch"
    /\ sidecar.applied[1].ok /\ sidecar.applied[2].ok
    /\ OnBranchTip(disk[S_cwfs], S_main)

-----------------------------------------------------------------------------
(* The version grammar and the tags *)

\* Where MAJOR, MINOR and PATCH end in a string that starts with them.
EndMajor(s) == SkipChars(s, 1, Digits)
EndMinor(s) == SkipChars(s, EndMajor(s) + 1, Digits)
EndPatch(s) == SkipChars(s, EndMinor(s) + 1, Digits)
\* The string starts with MAJOR.MINOR.PATCH, each a number.
StartsWithVersion(s) ==
    /\ EndMajor(s) > 1 /\ EndMajor(s) <= Len(s) /\ s[EndMajor(s)] = "."
    /\ EndMinor(s) > EndMajor(s) + 1 /\ EndMinor(s) <= Len(s) /\ s[EndMinor(s)] = "."
    /\ EndPatch(s) > EndMinor(s) + 1
AfterPatch(s) == SubSeq(s, EndPatch(s), Len(s))
KindOf(rest) ==
    IF StartsWith(rest, <<"r","c">>) THEN <<"r","c">>
    ELSE IF StartsWith(rest, <<"a">>) THEN <<"a">>
    ELSE IF StartsWith(rest, <<"b">>) THEN <<"b">>
    ELSE EmptyStr
AllDigits(s) == \A i \in 1..Len(s) : s[i] \in Digits
\* MAJOR.MINOR.PATCH[{a|b|rc}[N]] and nothing else
IsSemVer(s) ==
    /\ StartsWithVersion(s)
    /\ \/ AfterPatch(s) = EmptyStr
       \/ /\ KindOf(AfterPatch(s)) # EmptyStr
          /\ AllDigits(SubSeq(AfterPatch(s), Len(KindOf(AfterPatch(s))) + 1,
                              Len(AfterPatch(s))))
SemVerOf(s) ==
    [numbers |-> SubSeq(s, 1, EndPatch(s) - 1),
     kind |-> KindOf(AfterPatch(s)),
     n |-> SubSeq(AfterPatch(s), Len(KindOf(AfterPatch(s))) + 1, Len(AfterPatch(s)))]
WordOf(kind) ==
    IF kind = <<"a">> THEN <<"a","l","p","h","a">>
    ELSE IF kind = <<"b">> THEN <<"b","e","t","a">>
    ELSE <<"r","c">>
\* The tag of a version as the team spells it.
ReferenceTag(v) ==
    <<"v">> \o v.numbers \o
    (IF v.kind = EmptyStr THEN EmptyStr ELSE <<".">> \o WordOf(v.kind) \o <<".">> \o v.n)

\* C24: for every version string MAJOR.MINOR.PATCH[{a|b|rc}[N]]
\* expand_version_to_tag returns "v", MAJOR.MINOR.PATCH and, when there is a
\* prerelease, ".alpha.", ".beta." or ".rc." followed by N.
C24_TagSpelling ==
    (last.op = "expand_version_to_tag" /\ IsSemVer(last.arg))
        => last.result = ReferenceTag(SemVerOf(last.arg))

\* 1.0.0rc1 was expanded to v1.0.0.rc.1.
C24_Witness ==
    /\ last.op = "expand_version_to_tag"
    /\ last.arg = <<"1",".","0",".","0","r","c","1">>
    /\ last.result = <<"v","1",".","0",".","0",".","r","c",".","1">>

\* C25: two version strings of the grammar that differ in MAJOR, MINOR,
\* PATCH, the kind of prerelease or its number get different tags.
C25_TagsDiffer ==
    (/\ last.op = "expand_version_to_tag"
     /\ IsSemVer(last.arg) /\ IsSemVer(last.other)
     /\ SemVerOf(last.arg) # SemVerOf(last.other))
        => last.result # last.other_result

\* Two versions that differ in the kind of prerelease only were expanded.
C25_Witness ==
    /\ last.op = "expand_version_to_tag"
    /\ last.arg = Spell(Decimal(1), Decimal(1), Decimal(1), <<"a">>, Decimal(1))
    /\ last.other = Spell(Decimal(1), Decimal(1), Decimal(1), <<"b">>, Decimal(1))
    /\ last.result # last.other_result

\* C26: a string that is no MAJOR.MINOR.PATCH[{a|b|rc}[N]] is returned by
\* expand_version_to_tag as it is.
C26_OpaqueUnchanged ==
    (last.op = "expand_version_to_tag" /\ ~IsSemVer(last.arg))
        => last.result = last.arg

\* C27: VALID_VERSION matches every string that starts with
\* MAJOR.MINOR.PATCH and no string that does not start with a digit.
C27_MatcherDomain ==
    last.op = "is_match" =>
        /\ StartsWithVersion(last.arg) => last.result
        /\ (last.arg = EmptyStr \/ Head(last.arg) \notin Digits) => ~last.result

\* The characters of NAME and of VERSION.
NameLetters == Lower \cup Upper \cup Digits \cup {"_"}
VersionLetters == Lower \cup Upper \cup Digits \cup {"."}
\* The whole line is NAME=VERSION.
IsNameVersion(line) ==
    \E eq \in 1..Len(line) :
        /\ line[eq] = "="
        /\ \A i \in 1..(eq - 1) : line[i] \in NameLetters
        /\ \A i \in (eq + 1)..Len(line) : line[i] \in VersionLetters
NameOf(line) == SubSeq(line, 1, IndexOf(line, "=", 1) - 1)
VersionAfter(line) == SubSeq(line, IndexOf(line, "=", 1) + 1, Len(line))

\* C28: a line NAME=VERSION gives name = NAME and version = VERSION; any
\* other line gives nothing.
C28_LineGrammar ==
    last.op = "captures" =>
        IF IsNameVersion(last.arg)
        THEN /\ last.result.matched
             /\ last.result.name = NameOf(last.arg)
             /\ last.result.version = VersionAfter(last.arg)
        ELSE ~last.result.matched

\* C29: for every version string of the grammar, expanding the tag again
\* gives the tag, and the MAJOR.MINOR.PATCH read from the tag is that of the
\* version.
C29_Idempotent ==
    (last.op = "expand_again" /\ IsSemVer(last.arg)) =>
        /\ last.result = last.tag
        /\ last.tag # EmptyStr
        /\ StartsWithVersion(Tail(last.tag))
        /\ SemVerOf(Tail(last.tag)).numbers = SemVerOf(last.arg).numbers

\* The tag of 1.0.0a1 was expanded again and came back as it was.
C29_Witness ==
    /\ last.op = "expand_again"
    /\ last.arg = S_100a1
    /\ last.tag = <<"v","1",".","0",".","0",".","a","l","p","h","a",".","1">>
    /\ last.result = last.tag

-----------------------------------------------------------------------------
(* The keys of the baseline *)

\* C30: every key of the map get_base_env_versions returns is the name of a
\* managed repository, whatever the definitions file holds.
C30_KeysAreManaged ==
    (last.op \in {"show-original-versions", "reset"} /\ cycleDisk.file.exists)
        => DOMAIN last.versions \subseteq Repositories


-----------------------------------------------------------------------------
(* The result of run *)

\* A clone, a checkout or a reset of some repository failed during the action.
RepositoryFailed(l) ==
    \/ Len(l.errs) > 0
    \/ \E i \in DOMAIN l.clones : ~l.clones[i].ok

\* C23: the result of run is an error whenever a repository failure occurred
\* during the action and is success only when none occurred, a Reset in which
\* a repository failed to reach its baseline version included.
C23_ResultReflectsFailures ==
    last.op \in {"setup", "reset", "checkout-branch", "checkout-version"}
        => (last.result = "Err" <=> RepositoryFailed(last))

-----------------------------------------------------------------------------
(* The action events *)

FleetAction(l) == l.op \in {"setup", "reset", "checkout-branch", "checkout-version"}
IsCheckout(l) == l.op \in {"checkout-branch", "checkout-version"}
\* run went through the action: a checkout that failed did not.
Completed(l) == ~IsCheckout(l) \/ l.ok
\* The event of the action: its kind and, for a checkout, the repository and
\* the revision that were asked for.
EventOf(l) ==
    [kind |-> "action", action |-> l.op,
     repository |-> IF IsCheckout(l) THEN l.repo ELSE EmptyStr,
     branch_name |-> IF IsCheckout(l) THEN l.arg ELSE EmptyStr]
Payloads(sends) == [i \in DOMAIN sends |-> sends[i].payload]
\* The action events run tried to send, and those that reached the topic.
ActionCalls(l) == SelectSeq(l.sends, LAMBDA m : m.topic = "action")
ActionsPublished(l) == SelectSeq(l.sends, LAMBDA m : m.topic = "action" /\ m.delivered)

\* C22 as stated: each fleet-level action that run completes publishes exactly
\* one action event with that action's kind, repository and revision, and a
\* checkout that fails publishes none.
C22_Original ==
    FleetAction(last)
        => Payloads(ActionsPublished(last))
               = IF Completed(last) THEN <<EventOf(last)>> ELSE <<>>

\* C22: each fleet-level action that run completes makes exactly one call of
\* send_action_data, with that action's kind, repository and revision; the
\* event reaches the topic exactly when SASQUATCH_REST_PROXY_URL is set and the
\* proxy accepts the request; a checkout that fails makes no call.
C22_Amended ==
    FleetAction(last)
        => /\ Payloads(ActionCalls(last))
                 = IF Completed(last) THEN <<EventOf(last)>> ELSE <<>>
           /\ ActionsPublished(last)
                 = IF last.proxy = "accepts" THEN ActionCalls(last) ELSE <<>>
           /\ \A i \in DOMAIN last.sends :
                 last.sends[i].posted <=> last.proxy # "unset"

\* A checkout of a version that succeeded while the proxy accepted requests:
\* its one event names cwfs and the version.
C22_Witness ==
    /\ last.op = "checkout-version"
    /\ last.ok
    /\ last.repo = S_cwfs
    /\ last.arg = S_100a1
    /\ last.proxy = "accepts"
    /\ Len(ActionsPublished(last)) = 1

-----------------------------------------------------------------------------
(* The operation the sidecar issues for an event *)

\* The message decodes to an ActionData of one of the four actions.
ActionEvent(m) ==
    /\ decode(m).ok
    /\ from_value(decode(m).value).ok
    /\ m.action \in {"setup", "reset", "checkout-branch", "checkout-version"}
NamesRepository(m) == m.action \in {"checkout-branch", "checkout-version"}
\* What each action calls first: a clone for clone_repositories,
\* get_base_env_versions for reset_base_environment, and the method itself
\* for the two checkouts.
MethodOf(action) ==
    CASE action = "setup" -> "clone"
      [] action = "reset" -> "get_base_env_versions"
      [] action = "checkout-branch" -> "checkout_branch"
      [] action = "checkout-version" -> "reset_index_to_version"
\* The first call of the operation: the method with its repository and its
\* revision. A setup on a host where every repository is cloned calls nothing.
FirstCallIs(l, m) ==
    IF l.trace = <<>> THEN m.action = "setup"
    ELSE /\ l.trace[1].call = MethodOf(m.action)
         /\ NamesRepository(m)
               => l.trace[1].repo = m.repository /\ l.trace[1].arg = m.branch_name

-----------------------------------------------------------------------------
(* The repositories that can be selected *)

\* C38: the names selectable through Repos are the keys of the registry, and
\* Repos::new_from_str(r.get_name()) is r for every variant r: a name gives a
\* variant exactly when it is managed, and the name of each variant is managed.
C38_ReposAreTheRegistry ==
    /\ last.op = "new_from_str" => (last.result.some <=> contains_key(last.arg))
    /\ last.op = "get_name" => contains_key(last.result.value)
    /\ last.op = "name_and_back" => last.result = Some(last.arg)

-----------------------------------------------------------------------------
(* The fields of the summary *)

\* The fields of Summary but the timestamp, and the managed repository each is
\* named after.
SummaryFields ==
    {"spectractor", "atmospec", "cwfs", "summit_extras", "summit_utils",
     "ts_config_attcs", "ts_config_ocs", "ts_externalscripts",
     "ts_observatory_control", "ts_observing_utilities", "ts_standardscripts",
     "ts_wep"}
ManagedOfField(f) == IF f = "spectractor" THEN "Spectractor" ELSE f
Recorded(entry) == IF entry.ok THEN entry.version ELSE to_string(entry.err)

\* C37: every field of the Summary is the version, or the error text, the map
\* of get_current_env_versions holds for the managed repository of that name,
\* and is "Unknown" only when the map has no entry for that repository.
C37_SummaryIsTheVersions ==
    last.op = "from_btree_map"
        => \A f \in SummaryFields :
              last.result[f].text
                  = IF ManagedOfField(f) \in DOMAIN last.arg
                    THEN Recorded(last.arg[ManagedOfField(f)])
                    ELSE S_Unknown

-----------------------------------------------------------------------------
(* What the sidecar publishes *)

NothingSent(sends) ==
    \A i \in DOMAIN sends : ~sends[i].posted /\ ~sends[i].delivered

\* C34: while it replicates, the sidecar publishes no event: it runs only
\* with SASQUATCH_REST_PROXY_URL unset, so that every send of the operations
\* it issues makes no request, and taking a message puts no message on the
\* topic.
C34_SidecarPublishesNothing ==
    [][/\ sidecar'.pc = "running" => ~sidecar'.proxy
       /\ Receives => /\ NothingSent(last'.sends)
                      /\ last'.proxy \in {"unset", "none"}
                      /\ sidecar'.stream = sidecar.stream]_vars

\* The sidecar has applied a checkout that succeeded: the operation tried to
\* send its action and its summary, no request was made, and no message is
\* left on the topic.
C34_Witness ==
    /\ sidecar.pc = "running"
    /\ Len(sidecar.applied) > 0
    /\ sidecar.applied[Len(sidecar.applied)].ok
    /\ last.op = "checkout-branch"
    /\ Len(last.sends) = 2
    /\ NothingSent(last.sends)
    /\ sidecar.pos = Len(sidecar.stream)

-----------------------------------------------------------------------------
(* The order of the action event and the summary *)

\* The summary of the working copies as they are now.
SummaryNow ==
    [kind |-> "summary"] @@
    [f \in SummaryFields |->
        IF f \in Followed
        THEN [text |-> Recorded(get_current_version(disk, Directory(f)))]
        ELSE [text |-> S_Unknown]]
\* The action event first and the summary second, the summary being that of
\* the working copies the operation left.
ActionBeforeSummary(l) ==
    /\ Len(l.sends) = 2
    /\ l.sends[1].topic = "action"
    /\ l.sends[1].payload = EventOf(l)
    /\ l.sends[2].topic = "summary"
    /\ l.sends[2].payload = SummaryNow

\* C36 as stated: in a run of a state-changing action the action event is
\* published after the operation and before the summary event, the summary is
\* that of the repositories after the operation, and a Reset publishes both
\* events even when repositories failed.
C36_Original ==
    (FleetAction(last) /\ Completed(last))
        => /\ ActionBeforeSummary(last)
           /\ \A i \in DOMAIN last.sends : last.sends[i].delivered

\* C36: in a run of a state-changing action that completes, the action event
\* is sent after the operation and before the summary, the summary is that of
\* the repositories after the operation, and a Reset sends both even when
\* repositories failed; each of the two is published exactly when
\* SASQUATCH_REST_PROXY_URL is set and the proxy accepts the request.
C36_Amended ==
    (FleetAction(last) /\ Completed(last))
        => /\ ActionBeforeSummary(last)
           /\ \A i \in DOMAIN last.sends :
                 last.sends[i].delivered <=> last.proxy = "accepts"

\* A Reset in which ts_wep failed and cwfs was moved to its tag: both events
\* were published, and the summary has the tag for cwfs.
C36_Witness ==
    /\ last.op = "reset"
    /\ ~last.ok
    /\ \E i \in DOMAIN last.errs : last.errs[i].repo = S_ts_wep
    /\ last.proxy = "accepts"
    /\ Len(last.sends) = 2
    /\ last.sends[1].delivered /\ last.sends[2].delivered
    /\ last.sends[2].payload.cwfs.text = S_vtag
    /\ last.sends[2].payload.ts_wep.text # S_vtag

-----------------------------------------------------------------------------
(* The two passes of a reset with a run branch *)

\* Where the calls of a method are in the recorded calls.
CallsAt(trace, method) == {i \in 1..Len(trace) : trace[i].call = method}
CallsOn(trace, method, repo) ==
    {i \in CallsAt(trace, method) : trace[i].repo = repo}
ResetWithRunBranch(l) == l.op = "reset" /\ Len(l.arg) > 0

\* C35: in a reset with a run branch, checkout_branch has been called for
\* every repository of the baseline before the first reset_index_to_version
\* is called, and each repository gets exactly one checkout_branch and at most
\* one reset_index_to_version.
C35_TwoPasses ==
    ResetWithRunBranch(last)
        => /\ \A i \in CallsAt(last.trace, "checkout_branch"),
                 j \in CallsAt(last.trace, "reset_index_to_version") : i < j
           /\ \A repo \in DOMAIN last.versions :
                 /\ Cardinality(CallsOn(last.trace, "checkout_branch", repo)) = 1
                 /\ Cardinality(CallsOn(last.trace, "reset_index_to_version",
                                        repo)) <= 1
           /\ \A i \in CallsAt(last.trace, "checkout_branch")
                       \cup CallsAt(last.trace, "reset_index_to_version") :
                 last.trace[i].repo \in DOMAIN last.versions

\* A reset with a run branch that the first repository of the baseline does
\* not have and a later one has: three checkouts of the run branch, then the
\* resets of the repositories that missed it.
C35_Witness ==
    /\ ResetWithRunBranch(last)
    /\ Cardinality(DOMAIN last.versions) = 3
    /\ Cardinality(CallsAt(last.trace, "checkout_branch")) = 3
    /\ Len(last.misses) \in {1, 2}
    /\ last.misses[1] = S_atmospec
    /\ Cardinality(CallsAt(last.trace, "reset_index_to_version")) = Len(last.misses)

-----------------------------------------------------------------------------
(* The branch HEAD is on *)

\* C32: no checkout forces the local branch HEAD is on: in every state
\* reached by checkouts of branches and versions, HEAD has been moved to temp
\* or to a detached tag before the target branch is moved, so that the
\* backend never refuses the move; for every branch name, temp included, and
\* for a version checked out as a branch first and as a tag later.
C32_CurrentBranchNeverForced ==
    IsCheckout(last)
        => \A i \in DOMAIN last.errs :
              last.errs[i].cause # "cannot force update current HEAD"

-----------------------------------------------------------------------------
(* A checkout that fails *)

\* C33: a checkout of a branch or of a version that returns a failure leaves
\* HEAD, the local branches and the working tree of the repository as they
\* were before the call.
C33_FailureChangesNothing ==
    [][(IsCheckout(last') /\ ~last'.ok /\ last'.repo \in DOMAIN disk)
          => /\ disk'[last'.repo].head = disk[last'.repo].head
             /\ disk'[last'.repo].heads = disk[last'.repo].heads
             /\ disk'[last'.repo].wt = disk[last'.repo].wt
             /\ disk'[last'.repo].dirty = disk[last'.repo].dirty]_vars

\* C31: no operation alters a working copy under the destination other than
\* those of the managed repositories; the definitions repository is altered
\* by the baseline loader only, and reset_index_to_version called with a name
\* outside the registry fails and changes no repository.
BaselineLoaders == {"show-original-versions", "reset"}
C31_OnlyManagedAltered ==
    [][/\ (cycleDisk' # cycleDisk => last'.op \in BaselineLoaders)
       /\ (last'.op = "reset_index_to_version" /\ last' # last
              /\ last'.repo \notin Repositories)
             => (~last'.ok /\ disk' = disk /\ cycleDisk' = cycleDisk)]_vars

====
